---- MODULE Spec2Model ----
(***************************************************************************)
(* A model of the listing normalization and aggregation code of the        *)
(* real-estate helper: GroupingAgent (src/agents/grouping_agent.py) and    *)
(* AnalysisAgent (src/agents/analysis_agent.py), with the crawl of         *)
(* UneguiAgent.crawl_listings (src/agents/unegui_agent.py) that produces   *)
(* the records, and the pipeline of main (src/main.py) that runs the       *)
(* agents one after the other.                                             *)
(*                                                                         *)
(* Text.  A Python str is a sequence of characters.  A character of the    *)
(* model is a one-character string ("1", ".", " ") or one whole word that  *)
(* the code only ever handles as a unit: "saya" is the million word,       *)
(* "terbum" the billion word, "tug" the currency glyph, "oroo" the room    *)
(* word ("OROO" its upper-case form), "r" the ordinal suffix letter, "x"   *)
(* any other letter, "nan" and "inf" the two words float() reads as a      *)
(* number, and the eight district names.  The names are ASCII              *)
(* transliterations of the Cyrillic text of the source.                    *)
(*                                                                         *)
(* Values.  A Python value is a tagged record: None, an absent dict key,   *)
(* a str, an int, or a float; a float is a finite number, an infinity or   *)
(* not-a-number.                                                           *)
(*                                                                         *)
(* Numbers.  A finite float is written m * 10^e, kept normalised, and      *)
(* stands for the double nearest to that decimal, which is what float()    *)
(* returns for the text that spells it.  The exponent form keeps billions  *)
(* inside TLC's 32-bit integers.  A product float(text) * 10^k is either   *)
(* the double nearest to the decimal product or one of its two neighbours; *)
(* the field ulps (-1, 0 or 1) says which.                                 *)
(***************************************************************************)
EXTENDS Integers, Sequences, FiniteSets, TLC

(***************************************************************************)
(* Python values                                                           *)
(***************************************************************************)
None == [tag |-> "None"]

Absent == [tag |-> "absent"]

Str(s) == [tag |-> "str", chars |-> s]

IntV(n) == [tag |-> "int", n |-> n]

IsNone(v) == v.tag = "None"

IsStr(v) == v.tag = "str"

Digits == {"0", "1", "2", "3", "4", "5", "6", "7", "8", "9"}

DigitValue(c) ==
    CASE c = "0" -> 0 [] c = "1" -> 1 [] c = "2" -> 2 [] c = "3" -> 3
      [] c = "4" -> 4 [] c = "5" -> 5 [] c = "6" -> 6 [] c = "7" -> 7
      [] c = "8" -> 8 [] c = "9" -> 9

Letters == {"x", "r", "saya", "terbum", "oroo", "OROO", "nan", "inf"}

(* \w of the re module: letters and digits (no underscore in the alphabet). *)
IsWordChar(c) == c \in Digits \/ c \in Letters

(***************************************************************************)
(* str methods and re calls the code uses                                  *)
(***************************************************************************)
(* sub in s *)
Contains(s, sub) ==
    \E i \in 1..(Len(s) - Len(sub) + 1) : SubSeq(s, i, i + Len(sub) - 1) = sub

(* s.replace(c, '') for a character c *)
Remove(s, c) == SelectSeq(s, LAMBDA ch : ch # c)

(* s.strip() *)
Strip(s) ==
    LET nonspace == {i \in 1..Len(s) : s[i] # " "}
    IN  IF nonspace = {} THEN << >>
        ELSE LET lo == CHOOSE i \in nonspace : \A j \in nonspace : i <= j
                 hi == CHOOSE i \in nonspace : \A j \in nonspace : j <= i
             IN  SubSeq(s, lo, hi)

(* s.lower() *)
Lower(s) == [i \in 1..Len(s) |-> IF s[i] = "OROO" THEN "oroo" ELSE s[i]]

(* str.isdigit(): non-empty and every character a digit *)
IsDigitStr(s) == Len(s) > 0 /\ \A i \in 1..Len(s) : s[i] \in Digits

(* s.split('.')[0] *)
SplitDotFirst(s) ==
    LET dots == {i \in 1..Len(s) : s[i] = "."}
    IN  IF dots = {} THEN s
        ELSE SubSeq(s, 1, (CHOOSE i \in dots : \A j \in dots : i <= j) - 1)

(* re.sub(r"[^\d]", "", s) *)
DigitsOnly(s) == SelectSeq(s, LAMBDA ch : ch \in Digits)

(* re.search(r"[\d.]+", s): the first maximal run of digits and dots, or   *)
(* None when there is none.                                                *)
FirstNumberRun(s) ==
    LET isNum(i) == s[i] \in Digits \/ s[i] = "."
        starts == {i \in 1..Len(s) : isNum(i)}
    IN  IF starts = {} THEN None
        ELSE LET lo == CHOOSE i \in starts : \A j \in starts : i <= j
                 ends == {k \in lo..Len(s) : \A j \in lo..k : isNum(j)}
                 hi == CHOOSE k \in ends : \A j \in ends : j <= k
             IN  Str(SubSeq(s, lo, hi))

(* re.search(r"\b\d{4}\b", s): the first run of exactly four digits with a *)
(* word boundary on both sides, or None.                                   *)
FirstYearRun(s) ==
    LET ok(i) == /\ i + 3 <= Len(s)
                 /\ \A j \in i..(i + 3) : s[j] \in Digits
                 /\ (i = 1 \/ ~IsWordChar(s[i - 1]))
                 /\ (i + 3 = Len(s) \/ ~IsWordChar(s[i + 4]))
        starts == {i \in 1..Len(s) : ok(i)}
    IN  IF starts = {} THEN None
        ELSE LET lo == CHOOSE i \in starts : \A j \in starts : i <= j
             IN  Str(SubSeq(s, lo, lo + 3))

(***************************************************************************)
(* Decimal numbers m * 10^e                                                *)
(***************************************************************************)
RECURSIVE Pow10(_)
Pow10(k) == IF k = 0 THEN 1 ELSE 10 * Pow10(k - 1)

RECURSIVE DecNorm(_, _)
DecNorm(m, e) ==
    IF m = 0 THEN [tag |-> "float", m |-> 0, e |-> 0, ulps |-> 0]
    ELSE IF m % 10 = 0 THEN DecNorm(m \div 10, e + 1)
    ELSE [tag |-> "float", m |-> m, e |-> e, ulps |-> 0]

DecOfInt(n) == DecNorm(n, 0)

(* d * 10^k *)
DecScale(d, k) == DecNorm(d.m, d.e + k)

Abs(n) == IF n < 0 THEN -n ELSE n

RECURSIVE NumDigits(_)
NumDigits(n) == IF n < 10 THEN 1 ELSE 1 + NumDigits(n \div 10)

(* a < b for positive a and b: by order of magnitude, then by mantissa. *)
PosLess(a, b) ==
    LET oa == NumDigits(a.m) + a.e
        ob == NumDigits(b.m) + b.e
    IN  IF oa # ob THEN oa < ob
        ELSE IF a.e >= b.e THEN a.m * Pow10(a.e - b.e) < b.m
        ELSE a.m < b.m * Pow10(b.e - a.e)

DecNeg(a) == [tag |-> "float", m |-> -a.m, e |-> a.e, ulps |-> -a.ulps]

DecLess(a, b) ==
    IF a.m = b.m /\ a.e = b.e THEN a.ulps < b.ulps
    ELSE IF a.m <= 0 /\ b.m <= 0
    THEN IF a.m = 0 THEN FALSE
         ELSE IF b.m = 0 THEN TRUE
         ELSE PosLess(DecNeg(b), DecNeg(a))
    ELSE IF a.m <= 0 THEN TRUE
    ELSE IF b.m <= 0 THEN FALSE
    ELSE PosLess(a, b)

DecLeq(a, b) == a = b \/ DecLess(a, b)

DecAdd(a, b) ==
    LET e == IF a.e < b.e THEN a.e ELSE b.e
    IN  DecNorm(a.m * Pow10(a.e - e) + b.m * Pow10(b.e - e), e)

(***************************************************************************)
(* IEEE-754 double arithmetic.  A natural number is a sequence of bits,    *)
(* least significant first; long multiplication and division work on       *)
(* bytes.  float(text) is the double nearest to the decimal the text       *)
(* spells, and the product of two doubles is their exact product rounded   *)
(* to 53 significant bits, ties to even.                                   *)
(***************************************************************************)
RECURSIVE NatBits(_)
NatBits(n) == IF n = 0 THEN << >> ELSE <<n % 2>> \o NatBits(n \div 2)

(* n * bits, schoolbook, from position i with carry c *)
RECURSIVE MulNatFrom(_, _, _, _)
MulNatFrom(bits, n, i, c) ==
    IF i > Len(bits) THEN NatBits(c)
    ELSE LET v == n * bits[i] + c
         IN  <<v % 2>> \o MulNatFrom(bits, n, i + 1, v \div 2)

MulNat(bits, n) == IF n = 0 THEN << >> ELSE MulNatFrom(bits, n, 1, 0)

RECURSIVE Increment(_)
Increment(bits) ==
    IF Len(bits) = 0 THEN <<1>>
    ELSE IF bits[1] = 0 THEN <<1>> \o Tail(bits)
    ELSE <<0>> \o Increment(Tail(bits))

Zeros(k) == [i \in 1..k |-> 0]

(* Round a natural to 53 significant bits, to nearest, ties to even. *)
RoundDouble(bits) ==
    IF Len(bits) <= 53 THEN bits
    ELSE LET s == Len(bits) - 53
             kept == SubSeq(bits, s + 1, Len(bits))
             half == bits[s] = 1
             sticky == \E i \in 1..(s - 1) : bits[i] = 1
             up == half /\ (sticky \/ kept[1] = 1)
         IN  Zeros(s) \o (IF up THEN Increment(kept) ELSE kept)

RECURSIVE HexBits(_)
HexBits(hex) ==
    IF Len(hex) = 0 THEN << >>
    ELSE LET h == hex[Len(hex)]
         IN  <<h % 2, (h \div 2) % 2, (h \div 4) % 2, (h \div 8) % 2>>
             \o HexBits(SubSeq(hex, 1, Len(hex) - 1))

RECURSIVE Trim(_)
Trim(bits) ==
    IF Len(bits) > 0 /\ bits[Len(bits)] = 0
    THEN Trim(SubSeq(bits, 1, Len(bits) - 1))
    ELSE bits

(* a >= b for naturals given as trimmed bit sequences *)
BitsGeq(a, b) ==
    IF Len(a) # Len(b) THEN Len(a) > Len(b)
    ELSE LET diff == {i \in 1..Len(a) : a[i] # b[i]}
         IN  IF diff = {} THEN TRUE
             ELSE a[CHOOSE i \in diff : \A j \in diff : j <= i] = 1

(* A natural as a sequence of bytes, least significant first. *)
RECURSIVE NatBytes(_)
NatBytes(n) == IF n = 0 THEN << >> ELSE <<n % 256>> \o NatBytes(n \div 256)

Bit(bits, i) == IF i <= Len(bits) THEN bits[i] ELSE 0

ByteAt(bits, j) ==
    Bit(bits, j + 1) + 2 * Bit(bits, j + 2) + 4 * Bit(bits, j + 3)
        + 8 * Bit(bits, j + 4) + 16 * Bit(bits, j + 5) + 32 * Bit(bits, j + 6)
        + 64 * Bit(bits, j + 7) + 128 * Bit(bits, j + 8)

BytesOfBits(bits) ==
    SubSeq([j \in 1..((Len(bits) + 7) \div 8) |-> ByteAt(bits, 8 * (j - 1))],
           1, (Len(bits) + 7) \div 8)

BitsOfByte(b) ==
    <<b % 2, (b \div 2) % 2, (b \div 4) % 2, (b \div 8) % 2,
      (b \div 16) % 2, (b \div 32) % 2, (b \div 64) % 2, (b \div 128) % 2>>

BitsOfBytes(bytes) ==
    Trim(SubSeq([i \in 1..(8 * Len(bytes)) |->
                    BitsOfByte(bytes[((i - 1) \div 8) + 1])[((i - 1) % 8) + 1]],
                1, 8 * Len(bytes)))

(* n * bytes, schoolbook, from position i with carry c *)
RECURSIVE MulBytesFrom(_, _, _, _)
MulBytesFrom(bytes, n, i, c) ==
    IF i > Len(bytes) THEN NatBytes(c)
    ELSE <<(n * bytes[i] + c) % 256>>
             \o MulBytesFrom(bytes, n, i + 1, (n * bytes[i] + c) \div 256)

(* bytes * 10^k *)
RECURSIVE MulPow10(_, _)
MulPow10(bytes, k) ==
    IF k = 0 THEN bytes ELSE MulPow10(MulBytesFrom(bytes, 10, 1, 0), k - 1)

(* Long division by d < 2^23 from byte i down with remainder r: first      *)
(* whether anything is left over (0 or 1), then the bytes of the quotient. *)
RECURSIVE DivBytesFrom(_, _, _, _)
DivBytesFrom(bytes, d, i, r) ==
    IF i = 0 THEN <<IF r = 0 THEN 0 ELSE 1>>
    ELSE DivBytesFrom(bytes, d, i - 1, (256 * r + bytes[i]) % d)
             \o <<(256 * r + bytes[i]) \div d>>

LeftOver(first, rest) == <<IF first[1] + rest[1] > 0 THEN 1 ELSE 0>> \o Tail(rest)

(* bytes / 10^f, six digits at a time *)
RECURSIVE DivPow10(_, _)
DivPow10(bytes, f) ==
    IF f <= 6 THEN DivBytesFrom(bytes, Pow10(f), Len(bytes), 0)
    ELSE LeftOver(DivBytesFrom(bytes, Pow10(6), Len(bytes), 0),
                  DivPow10(Tail(DivBytesFrom(bytes, Pow10(6), Len(bytes), 0)), f - 6))

(* Rounded to 53 bits, what is left over below the last bit included. *)
RoundQuotient(q) == RoundDouble(<<q[1]>> \o BitsOfBytes(Tail(q)))

(* The double nearest to m * 10^e, in units of 2^-97. *)
DoubleOf(m, e) ==
    IF e >= 0 THEN RoundDouble(Zeros(97) \o BitsOfBytes(MulPow10(NatBytes(m), e)))
    ELSE RoundQuotient(DivPow10(Zeros(12) \o NatBytes(m), -e))

(* float(text) * 10^k for the text that spells m * 10^e: the exact product *)
(* of the two doubles, rounded.                                            *)
Product(m, e, k) ==
    RoundDouble(BitsOfBytes(MulPow10(BytesOfBits(DoubleOf(m, e)), k)))

(* Where the product lies: at the double nearest to m * 10^(e+k), or at    *)
(* its neighbour above or below.                                           *)
Neighbour(product, nearest) ==
    IF product = nearest THEN 0
    ELSE IF BitsGeq(product, nearest) THEN 1 ELSE -1

RECURSIVE Pow5(_)
Pow5(k) == IF k = 0 THEN 1 ELSE 5 * Pow5(k - 1)

(* The cases in which nothing is rounded: an integer below 10^15 whose     *)
(* product is below 10^15, and a fraction m / 10^f with 5^f dividing m,    *)
(* which is a whole number of 2^-f; both factors and their product then    *)
(* have fewer than 53 significant bits.                                    *)
IsExact(m, e, k) ==
    IF e >= 0 THEN NumDigits(Abs(m)) + e + k <= 15
    ELSE -e <= 9 /\ k <= 9 /\ m % Pow5(-e) = 0

Ulps(m, e, k) ==
    IF m = 0 \/ IsExact(m, e, k) THEN 0
    ELSE IF m < 0 THEN -Neighbour(Product(-m, e, k), DoubleOf(-m, e + k))
    ELSE Neighbour(Product(m, e, k), DoubleOf(m, e + k))

(* f * 10^k in double arithmetic *)
Multiply(f, k) == [DecScale(f, k) EXCEPT !.ulps = Ulps(f.m, f.e, k)]

(* a + b on bytes, from position i with carry c *)
RECURSIVE AddBytesFrom(_, _, _, _)
AddBytesFrom(a, b, i, c) ==
    IF i > Len(a) /\ i > Len(b) THEN NatBytes(c)
    ELSE LET v == (IF i <= Len(a) THEN a[i] ELSE 0) + (IF i <= Len(b) THEN b[i] ELSE 0) + c
         IN  <<v % 256>> \o AddBytesFrom(a, b, i + 1, v \div 256)

(* x + y of two doubles: the exact sum, rounded *)
FloatAdd(x, y) ==
    Trim(RoundDouble(BitsOfBytes(AddBytesFrom(BytesOfBits(x), BytesOfBits(y), 1, 0))))

(* x / n of a double and an int below 2^23: the exact quotient, rounded.   *)
(* The bit that tells what is left over stands below the unit and goes     *)
(* once the quotient is rounded.                                           *)
FloatDivide(x, n) ==
    Trim(Tail(RoundQuotient(DivBytesFrom(BytesOfBits(x), n, Len(BytesOfBits(x)), 0))))

RECURSIVE Decrement(_)
Decrement(bits) ==
    IF bits[1] = 1 THEN <<0>> \o Tail(bits) ELSE <<1>> \o Decrement(Tail(bits))

(* The next double above one of 53 significant bits *)
Succ(bits) ==
    Trim(Zeros(Len(bits) - 53) \o Increment(SubSeq(bits, Len(bits) - 52, Len(bits))))

(* The next double below: half a step down from a power of two *)
Pred(bits) ==
    IF \A i \in 1..(Len(bits) - 1) : bits[i] = 0
    THEN Zeros(Len(bits) - 54) \o [i \in 1..53 |-> 1]
    ELSE Trim(Zeros(Len(bits) - 53) \o Decrement(SubSeq(bits, Len(bits) - 52, Len(bits))))

(* The double a positive finite float of the model stands for, in units of *)
(* 2^-97.                                                                  *)
BitsOf(f) ==
    CASE f.ulps = 0 -> Trim(DoubleOf(f.m, f.e))
      [] f.ulps = 1 -> Succ(Trim(DoubleOf(f.m, f.e)))
      [] f.ulps = -1 -> Pred(Trim(DoubleOf(f.m, f.e)))

(***************************************************************************)
(* float(s) of a str: surrounding blanks are ignored, then an optional     *)
(* sign, and then digits with at most one point and at least one digit,    *)
(* the word "inf" or the word "nan".  Anything else raises ValueError,     *)
(* which the model returns as None.  (The letters of the alphabet spell no *)
(* exponent.)                                                              *)
(***************************************************************************)
NaN == [tag |-> "nan"]

Inf(negative) == [tag |-> "inf", negative |-> negative]

IsFinite(f) == f.tag = "float"

RECURSIVE DigitsToNat(_)
DigitsToNat(s) ==
    IF Len(s) = 0 THEN 0
    ELSE 10 * DigitsToNat(SubSeq(s, 1, Len(s) - 1)) + DigitValue(s[Len(s)])

(* The number of digits after the point. *)
FracDigits(u) ==
    LET dots == {i \in 1..Len(u) : u[i] = "."}
    IN  IF dots = {} THEN 0 ELSE Len(u) - (CHOOSE i \in dots : TRUE)

FloatUnsigned(u) ==
    IF u = <<"nan">> THEN NaN
    ELSE IF u = <<"inf">> THEN Inf(FALSE)
    ELSE IF /\ Len(DigitsOnly(u)) > 0
            /\ Cardinality({i \in 1..Len(u) : u[i] = "."}) <= 1
            /\ \A i \in 1..Len(u) : u[i] \in Digits \/ u[i] = "."
    THEN DecNorm(DigitsToNat(DigitsOnly(u)), -FracDigits(u))
    ELSE None

Negated(f) ==
    CASE f.tag = "float" -> DecNeg(f)
      [] f.tag = "inf" -> Inf(~f.negative)
      [] OTHER -> f

FloatStripped(t) ==
    IF Len(t) > 0 /\ t[1] = "-" THEN Negated(FloatUnsigned(Tail(t)))
    ELSE FloatUnsigned(t)

Float(s) == FloatStripped(Strip(s))

(***************************************************************************)
(* Results of a call: a value, or an exception that leaves the call.       *)
(***************************************************************************)
Raise(exc) == [tag |-> "raise", exc |-> exc]

IsRaise(v) == v.tag = "raise"

(* A call that returns normally with a list or a dict. *)
Ok(value) == [tag |-> "ok", value |-> value]

(* A bucket key or label the code returns as a str literal. *)
Label(name) == [tag |-> "label", name |-> name]

(* Python truthiness of the values the code tests with "if v:". *)
Truthy(v) ==
    CASE v.tag = "None" -> FALSE
      [] v.tag = "str" -> Len(v.chars) > 0
      [] v.tag = "int" -> v.n # 0
      [] v.tag = "float" -> v.m # 0
      [] OTHER -> TRUE

(* listing.get(field, default) *)
Get(listing, field, default) ==
    IF listing[field].tag = "absent" THEN default ELSE listing[field]

EmptyStr == Str(<< >>)

(***************************************************************************)
(* GroupingAgent                                                           *)
(***************************************************************************)
districts ==
    <<"Bayanzurkh", "Khan-Uul", "Bayangol", "Sukhbaatar", "Chingeltei",
      "Nalaikh", "Baganuur", "Bagakhangai">>

(* "district in place" raises TypeError when place is not a str. *)
_extract_district(place) ==
    IF ~IsStr(place) THEN Raise("TypeError")
    ELSE LET hits == {i \in 1..Len(districts) : Contains(place.chars, <<districts[i]>>)}
         IN  IF hits = {} THEN None
             ELSE Label(districts[CHOOSE i \in hits : \A j \in hits : i <= j])

PriceBand(price) ==
    IF DecLess(price, DecOfInt(100000000)) THEN Label("100 Sayaas baga unetei")
    ELSE IF DecLeq(DecOfInt(100000000), price) /\ DecLess(price, DecOfInt(300000000))
    THEN Label("100 sayaas - 300 saya")
    ELSE IF DecLeq(DecOfInt(300000000), price) /\ DecLess(price, DecOfInt(500000000))
    THEN Label("300 sayaas - 500 saya")
    ELSE Label("500 sayaas ikh")

(* The band of f * 10^k, or None when float() raised ValueError. *)
BandOf(f, k) ==
    IF IsNone(f) THEN None
    ELSE IF k = 0 THEN PriceBand(f)
    ELSE PriceBand(Multiply(f, k))

(* float(re.search(r"[\d.]+", price_str).group()) * 1_000_000: .group() on *)
(* no match raises AttributeError.                                         *)
MillionBand(run) == IF IsNone(run) THEN None ELSE BandOf(Float(run.chars), 6)

(* Every exception inside the body is caught by the bare except and gives  *)
(* None: TypeError for a non-str, AttributeError for no match, ValueError  *)
(* from float().                                                           *)
_get_price_range(price_str) ==
    IF ~IsStr(price_str) THEN None
    ELSE IF Contains(price_str.chars, <<"saya">>)
    THEN MillionBand(FirstNumberRun(price_str.chars))
    ELSE BandOf(Float(DigitsOnly(price_str.chars)), 0)

(* A variant that tests the counts from 5 down to 1 *)
ExtractRoomCountHighestFirst(text) ==
    LET t == Lower(text.chars)
        has(n) == \/ Contains(t, <<n, " ", "oroo">>)
                  \/ Contains(t, <<n, "-", "r", " ", "oroo">>)
    IN  IF has("5") THEN Label("5+ rooms")
        ELSE IF has("4") THEN Label("4 rooms")
        ELSE IF has("3") THEN Label("3 rooms")
        ELSE IF has("2") THEN Label("2 rooms")
        ELSE IF has("1") THEN Label("1 room")
        ELSE None

_extract_room_count(text) ==
    LET t == Lower(text.chars)
        has(n) == \/ Contains(t, <<n, " ", "oroo">>)
                  \/ Contains(t, <<n, "-", "r", " ", "oroo">>)
    IN  IF has("1") THEN Label("1 room")
        ELSE IF has("2") THEN Label("2 rooms")
        ELSE IF has("3") THEN Label("3 rooms")
        ELSE IF has("4") THEN Label("4 rooms")
        ELSE IF has("5") THEN Label("5+ rooms")
        ELSE None

AreaBand(area) ==
    IF IsNone(area) THEN None
    ELSE IF DecLess(area, DecOfInt(40)) THEN Label("Under 40 sqm")
    ELSE IF DecLeq(DecOfInt(40), area) /\ DecLess(area, DecOfInt(60))
    THEN Label("40-60 sqm")
    ELSE IF DecLeq(DecOfInt(60), area) /\ DecLess(area, DecOfInt(80))
    THEN Label("60-80 sqm")
    ELSE Label("Over 80 sqm")

AreaBandOfRun(run) == IF IsNone(run) THEN None ELSE AreaBand(Float(run.chars))

_get_area_range(area_str) ==
    IF ~IsStr(area_str) THEN None
    ELSE AreaBandOfRun(FirstNumberRun(area_str.chars))

(* A variant whose first band includes its upper end: year <= 2000 *)
YearBandInclusiveUpper(year) ==
    IF year <= 2000 THEN Label("Pre-2000")
    ELSE IF 2000 <= year /\ year < 2010 THEN Label("2000-2010")
    ELSE IF 2010 <= year /\ year < 2020 THEN Label("2010-2020")
    ELSE Label("Post-2020")

YearBand(year) ==
    IF year < 2000 THEN Label("Pre-2000")
    ELSE IF 2000 <= year /\ year < 2010 THEN Label("2000-2010")
    ELSE IF 2010 <= year /\ year < 2020 THEN Label("2010-2020")
    ELSE Label("Post-2020")

(* "if year_match:" has no else: the function ends and returns None. *)
YearBandOfMatch(year_match) ==
    IF IsNone(year_match) THEN None
    ELSE YearBand(DigitsToNat(year_match.chars))

_get_year_range(year_str) ==
    IF ~IsStr(year_str) THEN None
    ELSE YearBandOfMatch(FirstYearRun(year_str.chars))

(* A dimension's dict maps a key to a list; Python dicts keep insertion    *)
(* order, so the dict is a sequence of [key, items] in order of first      *)
(* insertion.  The list holds the listing objects themselves: the model    *)
(* holds their positions in the input sequence.                            *)
HasKey(buckets, key) == \E i \in 1..Len(buckets) : buckets[i].key = key

(* A variant that starts a new key's list with the listing and then        *)
(* appends the listing to it: d.setdefault(key, [listing]).append(listing) *)
AppendToSetDefault(buckets, key, pos) ==
    IF HasKey(buckets, key)
    THEN [i \in 1..Len(buckets) |->
            IF buckets[i].key = key
            THEN [key |-> key, items |-> Append(buckets[i].items, pos)]
            ELSE buckets[i]]
    ELSE Append(buckets, [key |-> key, items |-> <<pos, pos>>])

(* A variant that puts the listing at the head of the list:                *)
(* d[key].insert(0, listing)                                               *)
AppendToFront(buckets, key, pos) ==
    IF HasKey(buckets, key)
    THEN [i \in 1..Len(buckets) |->
            IF buckets[i].key = key
            THEN [key |-> key, items |-> <<pos>> \o buckets[i].items]
            ELSE buckets[i]]
    ELSE Append(buckets, [key |-> key, items |-> <<pos>>])

(* if key not in d: d[key] = []  ;  d[key].append(listing) *)
AppendTo(buckets, key, pos) ==
    IF HasKey(buckets, key)
    THEN [i \in 1..Len(buckets) |->
            IF buckets[i].key = key
            THEN [key |-> key, items |-> Append(buckets[i].items, pos)]
            ELSE buckets[i]]
    ELSE Append(buckets, [key |-> key, items |-> <<pos>>])

Dimensions ==
    <<"by_district", "by_price_range", "by_room_count", "by_area_range",
      "by_year_built">>

EmptyGroups == [d \in {Dimensions[i] : i \in 1..Len(Dimensions)} |-> << >>]

Put(groups, dim, label, pos) ==
    IF Truthy(label)
    THEN [groups EXCEPT ![dim] = AppendTo(groups[dim], label.name, pos)]
    ELSE groups

(* The five steps of the loop body of group_properties.  Each takes        *)
(* Ok(groups) or the exception raised so far and gives the same.           *)
PutOrRaise(groups, dim, label, pos) ==
    IF IsRaise(label) THEN label ELSE Ok(Put(groups, dim, label, pos))

DistrictStep(groups, listing, pos) ==
    PutOrRaise(groups, "by_district",
               _extract_district(Get(listing, "place", EmptyStr)), pos)

PriceStep(r, listing, pos) ==
    IF IsRaise(r) THEN r
    ELSE Ok(Put(r.value, "by_price_range",
                _get_price_range(Get(listing, "price", EmptyStr)), pos))

(* listing.get("title", "") + " " + listing.get("details", "") raises      *)
(* TypeError unless both are str.                                          *)
TitleAndDetails(title, details) ==
    IF ~IsStr(title) \/ ~IsStr(details) THEN Raise("TypeError")
    ELSE Str(title.chars \o <<" ">> \o details.chars)

RoomOf(text) == IF IsRaise(text) THEN text ELSE _extract_room_count(text)

RoomStep(r, listing, pos) ==
    IF IsRaise(r) THEN r
    ELSE PutOrRaise(r.value, "by_room_count",
                    RoomOf(TitleAndDetails(Get(listing, "title", EmptyStr),
                                           Get(listing, "details", EmptyStr))),
                    pos)

AreaStep(r, listing, pos) ==
    IF IsRaise(r) THEN r
    ELSE Ok(Put(r.value, "by_area_range",
                _get_area_range(Get(listing, "area", EmptyStr)), pos))

YearStep(r, listing, pos) ==
    IF IsRaise(r) THEN r
    ELSE Ok(Put(r.value, "by_year_built",
                _get_year_range(Get(listing, "year", EmptyStr)), pos))

(* One iteration of the loop of group_properties: Ok(the groups after the  *)
(* listing at position pos), or the exception that leaves the call.        *)
GroupListing(groups, listing, pos) ==
    YearStep(
        AreaStep(
            RoomStep(
                PriceStep(DistrictStep(groups, listing, pos), listing, pos),
                listing, pos),
            listing, pos),
        listing, pos)

RECURSIVE GroupLoop(_, _, _)
(* The rest of the loop after the iteration that gave g. *)
Continue(g, listings, pos) ==
    IF IsRaise(g) THEN g ELSE GroupLoop(g.value, listings, pos + 1)

GroupLoop(groups, listings, pos) ==
    IF pos > Len(listings) THEN Ok(groups)
    ELSE Continue(GroupListing(groups, listings[pos], pos), listings, pos)

(* group_properties(listings): Ok(the GroupSet), or Raise(exc). *)
group_properties(listings) == GroupLoop(EmptyGroups, listings, 1)

(***************************************************************************)
(* "num_listings * 0.4" and the comparison "count >= threshold".  The      *)
(* literal 0.4 is the double 0x1999999999999A * 2^-54; the product of an   *)
(* int and a double is the exact product rounded to 53 significant bits,   *)
(* ties to even; an int compares with a double by value.                   *)
(***************************************************************************)
(* The significand of the double 0.4, 0x1999999999999A; its unit is 2^-54. *)
PointFourSignificand == Trim(HexBits(<<1, 9, 9, 9, 9, 9, 9, 9, 9, 9, 9, 9, 9, 10>>))

PointFourExponent == 54

(* threshold = num_listings * 0.4, in units of 2^-54 *)
Threshold(num_listings) ==
    Trim(RoundDouble(MulNat(PointFourSignificand, num_listings)))

(* A variant with the strict comparison: count > threshold *)
CountGtThreshold(count, num_listings) ==
    LET c == IF count = 0 THEN << >> ELSE Zeros(PointFourExponent) \o NatBits(count)
    IN  BitsGeq(c, Threshold(num_listings)) /\ c # Threshold(num_listings)

(* count >= threshold *)
CountGeThreshold(count, num_listings) ==
    BitsGeq(IF count = 0 THEN << >>
            ELSE Zeros(PointFourExponent) \o NatBits(count),
            Threshold(num_listings))

(* The comparison for every list length and count the model reaches,       *)
(* computed once.                                                          *)
MaxFeatureListings == 5

LongestInput == 2 * MaxFeatureListings

ThresholdTable ==
    [n \in 0..LongestInput |-> {c \in 0..n : CountGeThreshold(c, n)}]

(* A variant with the threshold at a third of the records *)
IsCommonAtOneThird(count, num_listings) == count > 0 /\ 3 * count >= num_listings

IsCommon(count, num_listings) == count \in ThresholdTable[num_listings]

(***************************************************************************)
(* AnalysisAgent                                                           *)
(***************************************************************************)
(* float(...) * 10^k; an infinity and not-a-number stay what they are. *)
ScaleBy(f, k) == IF IsFinite(f) THEN Multiply(f, k) ELSE f

(* value_part = clean.replace(word, '').strip(); then the separators are   *)
(* removed, and float(...) * 10^k.                                         *)
Scaled(clean_price_initial, word, k) ==
    ScaleBy(Float(Remove(Remove(Strip(Remove(clean_price_initial, word)), ","), " ")), k)

(* A variant without the branch for the billion word *)
CleanPriceNoBillion(clean_price_initial) ==
    IF Contains(clean_price_initial, <<"saya">>)
    THEN Scaled(clean_price_initial, "saya", 6)
    ELSE Float(Remove(Remove(clean_price_initial, ","), " "))

CleanPrice(clean_price_initial) ==
    IF Contains(clean_price_initial, <<"saya">>)
    THEN Scaled(clean_price_initial, "saya", 6)
    ELSE IF Contains(clean_price_initial, <<"terbum">>)
    THEN Scaled(clean_price_initial, "terbum", 9)
    ELSE Float(Remove(Remove(clean_price_initial, ","), " "))

(* "if not price_str" returns None for None and ''.  str.replace on an int *)
(* raises AttributeError outside any try.  float() raising ValueError is   *)
(* caught and gives None.                                                  *)
_extract_numeric_price(price_str) ==
    IF ~Truthy(price_str) THEN None
    ELSE IF ~IsStr(price_str) THEN Raise("AttributeError")
    ELSE CleanPrice(Strip(Remove(price_str.chars, "tug")))

(* str(value) *)
RECURSIVE NatToDigits(_)
NatToDigits(n) ==
    LET d == <<"0", "1", "2", "3", "4", "5", "6", "7", "8", "9">>[(n % 10) + 1]
    IN  IF n < 10 THEN <<d>> ELSE NatToDigits(n \div 10) \o <<d>>

ToStr(v) ==
    IF v.tag = "int"
    THEN IF v.n < 0 THEN <<"-">> \o NatToDigits(-v.n) ELSE NatToDigits(v.n)
    ELSE v.chars

Features == <<"balcony", "total_floor", "year", "window_count", "floor">>

feature_display_names ==
    [balcony |-> "tagttai", total_floor |-> "niit davkhar",
     year |-> "ond ashiglaltand orson", window_count |-> "tsonkhtoi",
     floor |-> "davkhart bairladag"]

(* feature_counts[feature] is a dict value -> count: a sequence of         *)
(* [value, count] in order of first insertion.  An int and a str are       *)
(* different keys.                                                         *)
(* A variant that puts a value seen for the first time in front *)
CountValueInFront(counts, value) ==
    IF \E i \in 1..Len(counts) : counts[i].value = value
    THEN [i \in 1..Len(counts) |->
            IF counts[i].value = value
            THEN [value |-> value, count |-> counts[i].count + 1]
            ELSE counts[i]]
    ELSE <<[value |-> value, count |-> 1]>> \o counts

CountValue(counts, value) ==
    IF \E i \in 1..Len(counts) : counts[i].value = value
    THEN [i \in 1..Len(counts) |->
            IF counts[i].value = value
            THEN [value |-> value, count |-> counts[i].count + 1]
            ELSE counts[i]]
    ELSE Append(counts, [value |-> value, count |-> 1])

(* The value counted for a feature: str(value).split('.')[0] for the year. *)
Observed(value, feature) ==
    IF feature = "year" THEN Str(SplitDotFirst(ToStr(value))) ELSE value

CountIfDigit(counts, v) ==
    IF IsDigitStr(ToStr(v)) THEN CountValue(counts, v) ELSE counts

CountObserved(counts, value, feature) ==
    IF ~Truthy(value) THEN counts
    ELSE CountIfDigit(counts, Observed(value, feature))

(* The body of the inner loop for one listing and one feature. *)
CountFeature(counts, listing, feature) ==
    CountObserved(counts, Get(listing, feature, None), feature)

RECURSIVE FeatureCounts(_, _, _)
FeatureCounts(listings, feature, i) ==
    IF i = 0 THEN << >>
    ELSE CountFeature(FeatureCounts(listings, feature, i - 1), listings[i], feature)

(* The entries of one feature: f"{value} {feature_display_names[feature]}" *)
(* for each counted value with count >= threshold, in dict order.          *)
RECURSIVE CommonOf(_, _, _, _)
CommonOf(counts, feature, num_listings, i) ==
    IF i > Len(counts) THEN << >>
    ELSE (IF IsCommon(counts[i].count, num_listings)
          THEN <<ToStr(counts[i].value) \o <<" ", feature_display_names[feature]>>>>
          ELSE << >>)
         \o CommonOf(counts, feature, num_listings, i + 1)

RECURSIVE CommonFrom(_, _)
CommonFrom(listings, f) ==
    IF f > Len(Features) THEN << >>
    ELSE CommonOf(FeatureCounts(listings, Features[f], Len(listings)),
                  Features[f], Len(listings), 1)
         \o CommonFrom(listings, f + 1)

_calculate_common_features(listings) ==
    IF Len(listings) = 0 THEN << >> ELSE CommonFrom(listings, 1)

Prepend(p, rest) ==
    IF IsRaise(p) THEN p
    ELSE IF IsRaise(rest) THEN rest
    ELSE Ok(<<p>> \o rest.value)

PrependPrice(price, rest) ==
    IF ~Truthy(price) THEN rest ELSE Prepend(_extract_numeric_price(price), rest)

(* prices = [self._extract_numeric_price(l.get('price')) for l in listings *)
(*           if l.get('price')]: Ok(the list), or the exception the first  *)
(* failing call raises.                                                    *)
RECURSIVE ExtractPrices(_, _)
ExtractPrices(listings, i) ==
    IF i > Len(listings) THEN Ok(<< >>)
    ELSE PrependPrice(Get(listings[i], "price", None), ExtractPrices(listings, i + 1))

(* A variant that keeps a zero price: p >= 0 *)
ValidPricesWithZero(prices) == SelectSeq(prices, LAMBDA p : ~IsNone(p) /\ p.m >= 0)

(* [p for p in prices if p is not None and p > 0] *)
ValidPrices(prices) ==
    SelectSeq(prices, LAMBDA p : CASE p.tag = "float" -> p.m > 0
                                   [] p.tag = "inf" -> ~p.negative
                                   [] OTHER -> FALSE)

(* a + b and a <= b of valid prices: positive floats, the infinity included *)
PriceAdd(a, b) ==
    IF a.tag = "inf" \/ b.tag = "inf" THEN Inf(FALSE) ELSE DecAdd(a, b)

PriceLeq(a, b) ==
    IF b.tag = "inf" THEN TRUE
    ELSE IF a.tag = "inf" THEN FALSE
    ELSE DecLeq(a, b)

RECURSIVE Sum(_)
Sum(prices) ==
    IF Len(prices) = 0 THEN DecOfInt(0)
    ELSE PriceAdd(Sum(SubSeq(prices, 1, Len(prices) - 1)), prices[Len(prices)])

Min(prices) ==
    prices[CHOOSE i \in 1..Len(prices) : \A j \in 1..Len(prices) : PriceLeq(prices[i], prices[j])]

Max(prices) ==
    prices[CHOOSE i \in 1..Len(prices) : \A j \in 1..Len(prices) : PriceLeq(prices[j], prices[i])]

(* sum(prices) / len(prices), kept as the exact quotient num / den. *)
Quotient(num, den) == [num |-> num, den |-> den]

Zero == DecOfInt(0)

(***************************************************************************)
(* The narrative collaborator: self.model.generate_content(prompt) raises, *)
(* or returns a text.  The texts are told apart by the sections the two    *)
(* re.search calls find in them.                                           *)
(***************************************************************************)
LLMReplies == {"raise", "both_sections", "summary_only"}

SummaryFallback == "LLM analysis could not be done"

SuggestionsFallback == "LLM reply failed, check the API key"

(* summary_content after the try block *)
SummaryContent(llm) ==
    IF llm \in {"both_sections", "summary_only"} THEN "summary text"
    ELSE SummaryFallback

(* suggestions_text after the try block *)
SuggestionsText(llm) ==
    IF llm = "both_sections" THEN "suggestion text" ELSE SuggestionsFallback

(* A variant that assigns each bucket's list instead of extending with it: *)
(* the last bucket is all that is left.                                    *)
FlattenLast(all_sub_groups, i) ==
    IF Len(all_sub_groups) = 0 THEN << >>
    ELSE all_sub_groups[Len(all_sub_groups)].items

(* all_listings_in_category: the buckets' lists, concatenated in dict order *)
RECURSIVE Flatten(_, _)
Flatten(all_sub_groups, i) ==
    IF i > Len(all_sub_groups) THEN << >>
    ELSE all_sub_groups[i].items \o Flatten(all_sub_groups, i + 1)

(* category_name.replace('_', ' ').title() *)
Title(category_name) ==
    CASE category_name = "by_district" -> "By District"
      [] category_name = "by_price_range" -> "By Price Range"
      [] category_name = "by_room_count" -> "By Room Count"
      [] category_name = "by_area_range" -> "By Area Range"
      [] category_name = "by_year_built" -> "By Year Built"
      [] OTHER -> category_name

(* A variant that reports None for the statistics of an empty price list. *)
GroupDictNoneStats(group_name, count, prices, common_features, llm) ==
    [group_name |-> group_name,
     count |-> count,
     average_price |-> IF Len(prices) > 0 THEN Quotient(Sum(prices), Len(prices))
                       ELSE None,
     price_range |-> <<IF Len(prices) > 0 THEN Min(prices) ELSE None,
                       IF Len(prices) > 0 THEN Max(prices) ELSE None>>,
     common_features |-> common_features,
     summary |-> SummaryContent(llm),
     improvement_suggestions |-> <<SuggestionsText(llm)>>]

GroupDict(group_name, count, prices, common_features, llm) ==
    [group_name |-> group_name,
     count |-> count,
     average_price |-> IF Len(prices) > 0 THEN Quotient(Sum(prices), Len(prices))
                       ELSE Quotient(Zero, 1),
     price_range |-> <<IF Len(prices) > 0 THEN Min(prices) ELSE Zero,
                       IF Len(prices) > 0 THEN Max(prices) ELSE Zero>>,
     common_features |-> common_features,
     summary |-> SummaryContent(llm),
     improvement_suggestions |-> <<SuggestionsText(llm)>>]

(* A variant without the try/except around generate_content. *)
GroupAnalysisUncaught(group_name, count, extracted, common_features, llm) ==
    IF IsRaise(extracted) THEN extracted
    ELSE IF llm = "raise" THEN Raise("Exception")
    ELSE Ok(GroupDict(group_name, count, ValidPrices(extracted.value),
                      common_features, llm))

GroupAnalysis(group_name, count, extracted, common_features, llm) ==
    IF IsRaise(extracted) THEN extracted
    ELSE Ok(GroupDict(group_name, count, ValidPrices(extracted.value),
                      common_features, llm))

(* analyze_group: Ok(the analysis dict), or the exception raised while the *)
(* prices are extracted.  Whatever generate_content raises is caught.      *)
analyze_group(group_name, listings, llm) ==
    GroupAnalysis(group_name, Len(listings), ExtractPrices(listings, 1),
                  _calculate_common_features(listings), llm)

CategoryDict(category_name, count, prices, common_features, llm) ==
    [group_name |-> Title(category_name),
     count |-> count,
     average_price |-> IF Len(prices) > 0 THEN Quotient(Sum(prices), Len(prices))
                       ELSE Quotient(Zero, 1),
     price_range |-> <<IF Len(prices) > 0 THEN Min(prices) ELSE Zero,
                       IF Len(prices) > 0 THEN Max(prices) ELSE Zero>>,
     common_features |-> common_features,
     summary |-> SummaryContent(llm),
     improvement_suggestions |-> <<SuggestionsText(llm)>>]

CategoryAnalysis(category_name, count, extracted, common_features, llm) ==
    IF IsRaise(extracted) THEN extracted
    ELSE Ok(CategoryDict(category_name, count, ValidPrices(extracted.value),
                         common_features, llm))

CategoryOf(category_name, all_listings_in_category, llm) ==
    CategoryAnalysis(category_name, Len(all_listings_in_category),
                     ExtractPrices(all_listings_in_category, 1),
                     _calculate_common_features(all_listings_in_category), llm)

(* analyze_overall_category: all_sub_groups is the dict of one dimension,  *)
(* key -> list of listings.                                                *)
analyze_overall_category(category_name, all_sub_groups, llm) ==
    CategoryOf(category_name, Flatten(all_sub_groups, 1), llm)


(***************************************************************************)
(* The records UneguiAgent.crawl_listings produces: every field starts as  *)
(* None and is overwritten by the text of the tag when the tag is found.   *)
(***************************************************************************)
Fields ==
    {"title", "price", "place", "date", "area", "balcony", "total_floor",
     "details", "year", "floor", "window_count", "url"}

ad_data == [f \in Fields |-> None]

(***************************************************************************)
(* Inputs.  The listings the behaviours start from are drawn from short    *)
(* sequences of varied listings, longer sequences of listings that differ  *)
(* in their feature fields, the three-price example and the ten-listing    *)
(* scenario split 6/4 across two districts.                                *)
(***************************************************************************)
MaxListings == 2

Complete ==
    [ad_data EXCEPT
        !["title"] = Str(<<"2", " ", "oroo">>),
        !["price"] = Str(<<"1", "0", "0", " ", "saya", " ", "tug">>),
        !["place"] = Str(<<"x", ",", " ", "Bayanzurkh">>),
        !["area"] = Str(<<"4", "0", " ", "x">>),
        !["year"] = Str(<<"2", "0", "1", "0">>),
        !["details"] = Str(<<"x">>),
        !["balcony"] = Str(<<"1">>),
        !["total_floor"] = Str(<<"9">>),
        !["floor"] = Str(<<"3">>),
        !["window_count"] = Str(<<"2">>)]

(* 200 million with a thousands separator, an upper-case room word. *)
Second ==
    [ad_data EXCEPT
        !["title"] = Str(<<"3", "-", "r", " ", "OROO">>),
        !["price"] = Str(<<"2", "0", "0", " ", "saya", " ", "tug">>),
        !["place"] = Str(<<"Khan-Uul">>),
        !["area"] = Str(<<"3", "9", ".", "9">>),
        !["year"] = Str(<<"2", "0", "2", "0", ".", "0">>),
        !["details"] = EmptyStr,
        !["balcony"] = Str(<<"1">>),
        !["floor"] = Str(<<"x">>)]

(* A price in billions, six rooms. *)
Luxury ==
    [ad_data EXCEPT
        !["title"] = Str(<<"6", " ", "oroo">>),
        !["price"] = Str(<<"1", ".", "5", " ", "terbum", " ", "tug">>),
        !["place"] = Str(<<"Khan-Uul">>),
        !["area"] = Str(<<"8", "0">>),
        !["year"] = Str(<<"1", "9", "9", "9">>),
        !["details"] = Str(<<"x">>),
        !["balcony"] = Str(<<"2">>)]

(* Fields that do not parse: a price in words, a place outside the list.   *)
Unparsed ==
    [ad_data EXCEPT
        !["title"] = Str(<<"x">>),
        !["price"] = Str(<<"x">>),
        !["place"] = Str(<<"x">>),
        !["area"] = Str(<<"x">>),
        !["year"] = Str(<<"2", "0", "1", "5", "x">>),
        !["details"] = Str(<<"x">>)]

(* A price text with digits in it that is no number: "x 1 2". *)
Noisy ==
    [ad_data EXCEPT
        !["title"] = Str(<<"1", "5", " ", "oroo">>),
        !["price"] = Str(<<"x", " ", "1", " ", "2">>),
        !["place"] = Str(<<"Bayangol">>),
        !["area"] = Str(<<".">>),
        !["year"] = Str(<<"x", " ", "2", "0", "0", "0">>),
        !["details"] = EmptyStr]

(* A plain price with a space as thousands separator. *)
Plain ==
    [ad_data EXCEPT
        !["title"] = EmptyStr,
        !["price"] = Str(<<"5", "9", "0", " ", "6", "8", "0", " ", "tug">>),
        !["place"] = Str(<<"Bayanzurkh">>),
        !["area"] = Str(<<"6", "0">>),
        !["year"] = EmptyStr,
        !["details"] = Str(<<"4", " ", "oroo">>)]

(* A zero price, seven rooms. *)
Free ==
    [Plain EXCEPT !["price"] = Str(<<"0">>), !["details"] = Str(<<"7", " ", "oroo">>)]

(* A dict with some keys missing and the other fields ''. *)
Sparse ==
    [f \in Fields |->
        IF f \in {"price", "title", "year", "balcony", "floor"} THEN Absent
        ELSE EmptyStr]

SampleListings ==
    {Complete, Second, Luxury, Unparsed, Noisy, Plain, Free, ad_data, Sparse}

(* The prices '100 saya tug', '200 saya tug' and a price in words. *)
PriceExample == <<Complete, Second, Unparsed>>

FeatureListing(place, balcony, floor, year) ==
    [ad_data EXCEPT
        !["title"] = Str(<<"2", " ", "oroo">>),
        !["details"] = EmptyStr,
        !["price"] = Str(<<"1", "0", "0", " ", "saya">>),
        !["place"] = Str(<<place>>),
        !["balcony"] = balcony,
        !["floor"] = floor,
        !["year"] = year]

FeatureSamples ==
    {FeatureListing("Bayanzurkh", Str(<<"1">>), Str(<<"3">>), Str(<<"2", "0", "2", "0">>)),
     FeatureListing("Khan-Uul", Str(<<"2">>), Str(<<"4">>), Str(<<"2", "0", "2", "0", ".", "0">>)),
     FeatureListing("Khan-Uul", IntV(2), Str(<<"x">>), None)}

(* Ten listings, six in one district and four in the other, interleaved.   *)
EndToEnd ==
    LET a1 == FeatureListing("Bayanzurkh", Str(<<"1">>), Str(<<"3">>), None)
        a2 == FeatureListing("Bayanzurkh", Str(<<"1">>), Str(<<"4">>), None)
        b == FeatureListing("Khan-Uul", Str(<<"2">>), Str(<<"5">>), None)
    IN  <<b, a1, a2, b, a1, a2, b, a1, a2, b>>

(* A listing whose place tag was not found, its other fields as Complete;  *)
(* a listing without a description page.                                   *)
Unplaced == [Complete EXCEPT !["place"] = None]

Undescribed == [Complete EXCEPT !["details"] = None]

PartialInputs == {<<Unplaced>>, <<Complete, Unplaced>>, <<Undescribed>>}

SeqsUpTo(S, n) == UNION {[1..k -> S] : k \in 0..n}

Inputs ==
    SeqsUpTo(SampleListings, MaxListings)
        \cup SeqsUpTo(FeatureSamples, MaxFeatureListings)
        \cup {PriceExample, EndToEnd}
        \cup PartialInputs

(***************************************************************************)
(* State                                                                   *)
(***************************************************************************)
VARIABLES
    listings,       \* the list crawl_listings returned
    groups,         \* what group_properties(listings) returned or raised
    analysis,       \* the last analyze_* call and what it returned
    price_str,      \* a price text handed to the two price parsers
    price_range,    \* what _get_price_range(price_str) returned
    numeric_price,  \* what _extract_numeric_price(price_str) returned
    calls,          \* the calls in flight at the same time, each with its frame
    main,           \* main(): the statement it is at, and its local variables
    crawl           \* crawl_listings(pages): its loop, and the requests it made

vars ==
    <<listings, groups, analysis, price_str, price_range, numeric_price, calls,
      main, crawl>>

NotCalled == [tag |-> "not called"]

Init ==
    /\ listings \in Inputs
    /\ groups = NotCalled
    /\ analysis = NotCalled
    /\ price_str = None
    /\ price_range = NotCalled
    /\ numeric_price = NotCalled
    /\ calls = << >>
    /\ main = NotCalled
    /\ crawl = NotCalled

(* The listings a dict of one dimension holds, position by position. *)
Resolve(buckets) ==
    [i \in 1..Len(buckets) |->
        [key |-> buckets[i].key,
         items |-> [j \in 1..Len(buckets[i].items) |-> listings[buckets[i].items[j]]]]]

(* grouped_data = grouping_agent.group_properties(listings) *)
GroupProperties ==
    /\ groups = NotCalled
    /\ groups' = group_properties(listings)
    /\ UNCHANGED <<listings, analysis, price_str, price_range, numeric_price, calls, main, crawl>>

(* A behaviour makes one analysis call, and may make the same call once    *)
(* again (the collaborator may reply differently each time).  "repeated"   *)
(* records that the call was made before on the same list.                 *)
MayCall(op, category_name) ==
    IF analysis = NotCalled THEN TRUE
    ELSE ~analysis.repeated /\ analysis.op = op /\ analysis.category = category_name

(* analysis_agent.analyze_overall_category(category_name, sub_groups_dict) *)
(* on one dimension of the GroupSet.                                       *)
AnalyzeOverallCategory(category_name, llm) ==
    /\ groups.tag = "ok"
    /\ MayCall("analyze_overall_category", category_name)
    /\ analysis' =
          [tag |-> "call", op |-> "analyze_overall_category",
           category |-> category_name, llm |-> llm,
           repeated |-> analysis # NotCalled,
           result |-> analyze_overall_category(
                          category_name, Resolve(groups.value[category_name]), llm)]
    /\ UNCHANGED <<listings, groups, price_str, price_range, numeric_price, calls, main, crawl>>

(* A variant that writes into the records it reads: listing["year"] = None *)
AnalyzeGroupClearingYear(llm) ==
    /\ MayCall("analyze_group", "")
    /\ analysis' =
          [tag |-> "call", op |-> "analyze_group", category |-> "", llm |-> llm,
           repeated |-> analysis # NotCalled,
           result |-> analyze_group("group", listings, llm)]
    /\ listings' = [i \in 1..Len(listings) |-> [listings[i] EXCEPT !["year"] = None]]
    /\ UNCHANGED <<groups, price_str, price_range, numeric_price, calls, main, crawl>>

(* analysis_agent.analyze_group(name, listings) on a list of listing       *)
(* dicts; the list stands for the one main hands over.                     *)
AnalyzeGroup(llm) ==
    /\ MayCall("analyze_group", "")
    /\ analysis' =
          [tag |-> "call", op |-> "analyze_group", category |-> "", llm |-> llm,
           repeated |-> analysis # NotCalled,
           result |-> analyze_group("group", listings, llm)]
    /\ UNCHANGED <<listings, groups, price_str, price_range, numeric_price, calls, main, crawl>>

Next ==
    \/ GroupProperties
    \/ \E d \in 1..Len(Dimensions), llm \in LLMReplies :
          AnalyzeOverallCategory(Dimensions[d], llm)
    \/ \E llm \in LLMReplies : AnalyzeGroup(llm)

Spec == Init /\ [][Next]_vars

(* The grouping stage alone: main up to the call of group_properties. *)
NextGrouping == GroupProperties

SpecGrouping == Init /\ [][NextGrouping]_vars

(***************************************************************************)
(* The two price parsers on one price text.  The texts are every text of   *)
(* up to MaxPriceLen characters over PriceChars, and the price texts of    *)
(* the sample listings.                                                    *)
(***************************************************************************)
MaxPriceLen == 3

PriceChars ==
    {"0", "1", "5", ".", ",", " ", "saya", "terbum", "tug", "x", "nan", "inf"}

PriceTexts ==
    {Str(s) : s \in SeqsUpTo(PriceChars, MaxPriceLen)}
        \cup {Get(l, "price", None) : l \in SampleListings}

(* Prices written out from a known amount in tugrik, in the formats of the *)
(* docstring of _extract_numeric_price: "590 680 tug", "300,000tug",       *)
(* "300 saya tug", "1.5 terbum tug".                                       *)
KnownValues == {590680, 4100000, 300000000, 1500000000}

(* The digits in groups of three from the right, sep between the groups. *)
RECURSIVE Grouped(_, _)
Grouped(digits, sep) ==
    IF Len(digits) <= 3 THEN digits
    ELSE Grouped(SubSeq(digits, 1, Len(digits) - 3), sep) \o sep
             \o SubSeq(digits, Len(digits) - 2, Len(digits))

(* The digits of n, with zeros in front up to the given width. *)
Padded(n, width) ==
    [i \in 1..(width - Len(NatToDigits(n))) |-> "0"] \o NatToDigits(n)

(* The shortest decimal text of m * 10^e. *)
DecimalText(d) ==
    IF d.e >= 0 THEN NatToDigits(d.m) \o [i \in 1..d.e |-> "0"]
    ELSE NatToDigits(d.m \div Pow10(-d.e)) \o <<".">>
             \o Padded(d.m % Pow10(-d.e), -d.e)

Variants == {"plain", "spaces", "commas", "million", "billion"}

Amount(value, variant) ==
    CASE variant = "plain" -> NatToDigits(value)
      [] variant = "spaces" -> Grouped(NatToDigits(value), <<" ">>)
      [] variant = "commas" -> Grouped(NatToDigits(value), <<",">>)
      [] variant = "million" -> DecimalText(DecNorm(value, -6)) \o <<" ", "saya">>
      [] variant = "billion" -> DecimalText(DecNorm(value, -9)) \o <<" ", "terbum">>

Format(value, variant, glyph) ==
    Str(IF glyph THEN Amount(value, variant) \o <<" ", "tug">>
        ELSE Amount(value, variant))

FormattedPrices ==
    {Format(value, variant, glyph) :
        value \in KnownValues, variant \in Variants, glyph \in BOOLEAN}

InitPrice ==
    /\ listings = << >>
    /\ groups = NotCalled
    /\ analysis = NotCalled
    /\ price_str \in PriceTexts \cup FormattedPrices
    /\ price_range = NotCalled
    /\ numeric_price = NotCalled
    /\ calls = << >>
    /\ main = NotCalled
    /\ crawl = NotCalled

(* price_range = self._get_price_range(listing.get("price", "")) *)
GetPriceRange ==
    /\ price_range = NotCalled
    /\ price_range' = _get_price_range(price_str)
    /\ UNCHANGED <<listings, groups, analysis, price_str, numeric_price, calls, main, crawl>>

(* numeric = self._extract_numeric_price(price_str) *)
ExtractNumericPrice ==
    /\ numeric_price = NotCalled
    /\ numeric_price' = _extract_numeric_price(price_str)
    /\ UNCHANGED <<listings, groups, analysis, price_str, price_range, calls, main, crawl>>

NextPrice == GetPriceRange \/ ExtractNumericPrice

SpecPrice == InitPrice /\ [][NextPrice]_vars

(***************************************************************************)
(* group_properties on one record whose price, area and year are written   *)
(* out from values at and next to the ends of the bands.                   *)
(***************************************************************************)
BoundaryPrices ==
    {99900000, 100000000, 100100000, 299900000, 300000000, 300100000,
     499900000, 500000000, 500100000}

(* areas in tenths of a square metre *)
BoundaryAreas == {399, 400, 401, 599, 600, 601, 799, 800, 801}

BoundaryYears == {1999, 2000, 2001, 2009, 2010, 2011, 2019, 2020, 2021}

PriceTextsOf(value) ==
    {Format(value, "plain", TRUE), Format(value, "commas", FALSE),
     Format(value, "million", TRUE)}

AreaText(tenths) == Str(DecimalText(DecNorm(tenths, -1)) \o <<" ", "x">>)

YearText(year) == Str(NatToDigits(year))

BandListing(price, area, year) ==
    [Complete EXCEPT !["price"] = price, !["area"] = area, !["year"] = year]

BandInputs ==
    {<<BandListing(price, AreaText(tenths), YearText(year))>> :
        price \in UNION {PriceTextsOf(value) : value \in BoundaryPrices},
        tenths \in BoundaryAreas, year \in BoundaryYears}

InitBands ==
    /\ listings \in BandInputs
    /\ groups = NotCalled
    /\ analysis = NotCalled
    /\ price_str = None
    /\ price_range = NotCalled
    /\ numeric_price = NotCalled
    /\ calls = << >>
    /\ main = NotCalled
    /\ crawl = NotCalled

SpecBands == InitBands /\ [][NextGrouping]_vars

(***************************************************************************)
(* group_properties on one record whose title is any short text of digits, *)
(* blanks and the room word, and whose details may hold a token as well.   *)
(***************************************************************************)
MaxTitleLen == 3

TitleChars == {"1", "2", "6", " ", "oroo", "OROO"}

DetailsTexts ==
    {<< >>, <<"x">>, <<"oroo">>, <<"1", " ", "oroo">>,
     <<"3", "-", "r", " ", "oroo">>, <<"5", " ", "OROO">>}

RoomInputs ==
    {<<[Complete EXCEPT !["title"] = Str(title), !["details"] = Str(details)]>> :
        title \in SeqsUpTo(TitleChars, MaxTitleLen), details \in DetailsTexts}

InitRooms ==
    /\ listings \in RoomInputs
    /\ groups = NotCalled
    /\ analysis = NotCalled
    /\ price_str = None
    /\ price_range = NotCalled
    /\ numeric_price = NotCalled
    /\ calls = << >>
    /\ main = NotCalled
    /\ crawl = NotCalled

SpecRooms == InitRooms /\ [][NextGrouping]_vars

(***************************************************************************)
(* analyze_group on short lists of records that differ in the fields       *)
(* _calculate_common_features counts.                                      *)
(***************************************************************************)
MaxRecords == 3

FeatureRecords ==
    {FeatureListing("Khan-Uul", Str(<<"1">>), Str(<<"3">>), Str(<<"2", "0", "2", "0">>)),
     FeatureListing("Khan-Uul", IntV(1), Str(<<"x">>),
                    Str(<<"2", "0", "2", "0", ".", "0">>)),
     FeatureListing("Khan-Uul", Str(<<"x">>), Str(<<"3", ".", "5">>),
                    Str(<<"2", "0", "2", "0", ".", "x">>)),
     FeatureListing("Khan-Uul", Str(<<"2">>), Str(<<"3">>), None)}

InitFeatures ==
    /\ listings \in SeqsUpTo(FeatureRecords, MaxRecords)
    /\ groups = NotCalled
    /\ analysis = NotCalled
    /\ price_str = None
    /\ price_range = NotCalled
    /\ numeric_price = NotCalled
    /\ calls = << >>
    /\ main = NotCalled
    /\ crawl = NotCalled

NextFeatures == \E llm \in LLMReplies : AnalyzeGroup(llm)

SpecFeatures == InitFeatures /\ [][NextFeatures]_vars

(***************************************************************************)
(* _calculate_common_features on records that hold all five feature        *)
(* fields: the same value everywhere as a str or as an int, or nothing.    *)
(***************************************************************************)
CommonRecord(value, year) ==
    [ad_data EXCEPT
        !["balcony"] = value,
        !["total_floor"] = value,
        !["window_count"] = value,
        !["floor"] = value,
        !["year"] = year]

CommonRecords ==
    {CommonRecord(Str(<<"1">>), Str(<<"2", "0", "2", "0">>)),
     CommonRecord(Str(<<"2">>), Str(<<"2", "0", "2", "1">>)),
     CommonRecord(IntV(2), IntV(2021)),
     ad_data}

InitCommon ==
    /\ listings \in SeqsUpTo(CommonRecords, MaxFeatureListings)
    /\ groups = NotCalled
    /\ analysis = NotCalled
    /\ price_str = None
    /\ price_range = NotCalled
    /\ numeric_price = NotCalled
    /\ calls = << >>
    /\ main = NotCalled
    /\ crawl = NotCalled

SpecCommon == InitCommon /\ [][NextFeatures]_vars

(***************************************************************************)
(* Calls in flight at the same time.  Each call has a frame of its own:    *)
(* the parameter listings and the local names (groups in group_properties; *)
(* count, prices and common_features in analyze_group).  The agents have   *)
(* no attribute that a call writes.  A thread can be interrupted between   *)
(* any two steps: entering the call, each iteration of the loop of         *)
(* group_properties, the request to the narrative collaborator, and the    *)
(* return.                                                                 *)
(***************************************************************************)
NumCalls == 2

Operations == {"group_properties", "analyze_group"}

ConcurrentInputs == {<<Complete, Second>>, <<Luxury, Complete>>, <<Complete, Unplaced>>}

NewCall(op, input) ==
    [op |-> op, listings |-> input, entered |-> FALSE, pos |-> 1, locals |-> None,
     llm |-> "", result |-> NotCalled, overlapped |-> FALSE]

InitConcurrent ==
    /\ listings = << >>
    /\ groups = NotCalled
    /\ analysis = NotCalled
    /\ price_str = None
    /\ price_range = NotCalled
    /\ numeric_price = NotCalled
    /\ calls \in [1..NumCalls -> {NewCall(op, input) :
                                     op \in Operations, input \in ConcurrentInputs}]
    /\ main = NotCalled
    /\ crawl = NotCalled

InFlight(call) == call.entered /\ call.result = NotCalled

(* Another call is in flight while call c takes a step. *)
Overlaps(c) == calls[c].overlapped \/ \E d \in DOMAIN calls : d # c /\ InFlight(calls[d])

(* A variant in which the calls of one operation work on the frame of the  *)
(* first of them, as they would on an attribute of the agent.              *)
FrameOfFirstCall(cs, c) ==
    IF cs[1].op = cs[c].op /\ cs[1].entered THEN cs[1].locals ELSE cs[c].locals

(* The local names of call c *)
FrameOf(cs, c) == cs[c].locals

(* groups = {...} at the head of group_properties; count, prices and       *)
(* common_features at the head of analyze_group.                           *)
EnterCall(c) ==
    /\ ~calls[c].entered
    /\ calls' = [calls EXCEPT
          ![c].entered = TRUE,
          ![c].overlapped = Overlaps(c),
          ![c].locals =
              IF calls[c].op = "group_properties" THEN EmptyGroups
              ELSE [count |-> Len(calls[c].listings),
                    extracted |-> ExtractPrices(calls[c].listings, 1),
                    common_features |-> _calculate_common_features(calls[c].listings)]]
    /\ UNCHANGED <<listings, groups, analysis, price_str, price_range, numeric_price,
                   main, crawl>>

(* What one iteration of the loop leaves of the call: the groups and the   *)
(* next position, or the exception as its result.                          *)
Iterated(call, g, overlapped) ==
    IF IsRaise(g) THEN [call EXCEPT !.result = g, !.overlapped = overlapped]
    ELSE [call EXCEPT !.locals = g.value, !.pos = call.pos + 1,
                      !.overlapped = overlapped]

(* One iteration of "for listing in listings" in call c *)
IterateCall(c) ==
    /\ InFlight(calls[c])
    /\ calls[c].op = "group_properties"
    /\ calls[c].pos <= Len(calls[c].listings)
    /\ calls' = [calls EXCEPT ![c] =
          Iterated(calls[c],
                   GroupListing(FrameOf(calls, c), calls[c].listings[calls[c].pos],
                                calls[c].pos),
                   Overlaps(c))]
    /\ UNCHANGED <<listings, groups, analysis, price_str, price_range, numeric_price,
                   main, crawl>>

(* return groups *)
ReturnGroups(c) ==
    /\ InFlight(calls[c])
    /\ calls[c].op = "group_properties"
    /\ calls[c].pos > Len(calls[c].listings)
    /\ calls' = [calls EXCEPT ![c].result = Ok(FrameOf(calls, c)),
                              ![c].overlapped = Overlaps(c)]
    /\ UNCHANGED <<listings, groups, analysis, price_str, price_range, numeric_price,
                   main, crawl>>

(* The request to the collaborator and the return of analyze_group *)
NarrateCall(c, llm) ==
    /\ InFlight(calls[c])
    /\ calls[c].op = "analyze_group"
    /\ calls' = [calls EXCEPT
          ![c].llm = llm,
          ![c].overlapped = Overlaps(c),
          ![c].result = GroupAnalysis("group", FrameOf(calls, c).count,
                                      FrameOf(calls, c).extracted,
                                      FrameOf(calls, c).common_features, llm)]
    /\ UNCHANGED <<listings, groups, analysis, price_str, price_range, numeric_price,
                   main, crawl>>

NextConcurrent ==
    \E c \in DOMAIN calls :
        \/ EnterCall(c)
        \/ IterateCall(c)
        \/ ReturnGroups(c)
        \/ \E llm \in LLMReplies : NarrateCall(c, llm)

SpecConcurrent == InitConcurrent /\ [][NextConcurrent]_vars

(***************************************************************************)
(* UneguiAgent.crawl_listings(pages).  The site is the environment: each   *)
(* request for a listing page fails or returns a page with its ads, and    *)
(* each ad is a card with or without a link, whose detail page fails, is   *)
(* not parsed, or is parsed.  One action is one pass of "for i in          *)
(* range(1, pages + 1)"; the requests made and the pages served are kept   *)
(* next to the locals.  The site serves at most MaxAds ads in one crawl.   *)
(***************************************************************************)
MaxPages == 4

MaxAds == 2

AdKinds == {"bare", "unlinked", "detail_fails", "detail_unparsed", "detailed"}

BASE_URL == "https://www.unegui.mn/"

(* The text that tells the k-th ad of page i from every other ad. *)
AdName(i, k) == <<"ad">> \o NatToDigits(i) \o <<"/">> \o NatToDigits(k)

(* ad_data after the card is read: a tag that is not found leaves None. *)
Card(kind, i, k) ==
    CASE kind = "bare" -> ad_data
      [] kind = "unlinked" -> [ad_data EXCEPT !["title"] = Str(AdName(i, k))]
      [] OTHER ->
            [ad_data EXCEPT
                !["title"] = Str(AdName(i, k)),
                !["price"] = Str(<<"1", "0", "0", " ", "saya", " ", "tug">>),
                !["place"] = Str(<<"x", ",", " ", "Bayanzurkh">>),
                !["url"] = Str(<<BASE_URL>> \o AdName(i, k))]

(* ad_data after "if additional_url:": the two except clauses leave the    *)
(* card as it is, a parsed detail page fills the detail fields.            *)
Detailed(card, kind) ==
    IF ~Truthy(card["url"]) THEN card
    ELSE IF kind = "detailed"
    THEN [card EXCEPT !["details"] = Str(<<"2", " ", "oroo">>),
                      !["area"] = Str(<<"4", "0", " ", "x">>),
                      !["year"] = Str(<<"2", "0", "1", "0">>)]
    ELSE card

(* A variant that drops the ad whose detail page is not fetched or parsed. *)
RECURSIVE AppendAdsDetailedOnly(_, _, _, _)
AppendAdsDetailedOnly(all_listings_data, ads, i, k) ==
    IF k > Len(ads) THEN all_listings_data
    ELSE AppendAdsDetailedOnly(
             IF ads[k] \in {"detail_fails", "detail_unparsed"} THEN all_listings_data
             ELSE Append(all_listings_data, Detailed(Card(ads[k], i, k), ads[k])),
             ads, i, k + 1)

(* "for ad in ads": all_listings_data.append(ad_data) for every ad *)
RECURSIVE AppendAds(_, _, _, _)
AppendAds(all_listings_data, ads, i, k) ==
    IF k > Len(ads) THEN all_listings_data
    ELSE AppendAds(Append(all_listings_data, Detailed(Card(ads[k], i, k), ads[k])),
                   ads, i, k + 1)

(* The pages a crawl may be asked for, zero included. *)
PageCounts == 0..MaxPages

InitCrawl ==
    /\ listings = << >>
    /\ groups = NotCalled
    /\ analysis = NotCalled
    /\ price_str = None
    /\ price_range = NotCalled
    /\ numeric_price = NotCalled
    /\ calls = << >>
    /\ main = NotCalled
    /\ crawl \in {[pages |-> pages, i |-> 1, broke |-> FALSE,
                   all_listings_data |-> << >>, requested |-> << >>,
                   served |-> << >>, returned |-> FALSE] : pages \in PageCounts}

(* The loop is at the head of a pass. *)
InLoop == ~crawl.returned /\ ~crawl.broke /\ crawl.i <= crawl.pages

(* The ads served so far *)
RECURSIVE AdsServed(_)
AdsServed(served) ==
    IF Len(served) = 0 THEN 0
    ELSE Len(served[Len(served)].ads) + AdsServed(SubSeq(served, 1, Len(served) - 1))

(* requests.get or raise_for_status raises RequestException: continue *)
FetchFails ==
    /\ InLoop
    /\ crawl' = [crawl EXCEPT
          !.i = crawl.i + 1,
          !.requested = Append(crawl.requested, crawl.i),
          !.served = Append(crawl.served, [fetched |-> FALSE, ads |-> << >>])]
    /\ UNCHANGED <<listings, groups, analysis, price_str, price_range, numeric_price,
                   calls, main>>

(* "if not ads": break *)
NoAds ==
    /\ InLoop
    /\ crawl' = [crawl EXCEPT
          !.broke = TRUE,
          !.requested = Append(crawl.requested, crawl.i),
          !.served = Append(crawl.served, [fetched |-> TRUE, ads |-> << >>])]
    /\ UNCHANGED <<listings, groups, analysis, price_str, price_range, numeric_price,
                   calls, main>>

(* A page with ads: one record is appended for each, then time.sleep(1) *)
CrawlAds(ads) ==
    /\ InLoop
    /\ Len(ads) > 0
    /\ AdsServed(crawl.served) + Len(ads) <= MaxAds
    /\ crawl' = [crawl EXCEPT
          !.i = crawl.i + 1,
          !.all_listings_data = AppendAds(crawl.all_listings_data, ads, crawl.i, 1),
          !.requested = Append(crawl.requested, crawl.i),
          !.served = Append(crawl.served, [fetched |-> TRUE, ads |-> ads])]
    /\ UNCHANGED <<listings, groups, analysis, price_str, price_range, numeric_price,
                   calls, main>>

(* return all_listings_data *)
ReturnListings ==
    /\ ~crawl.returned
    /\ crawl.broke \/ crawl.i > crawl.pages
    /\ crawl' = [crawl EXCEPT !.returned = TRUE]
    /\ listings' = crawl.all_listings_data
    /\ UNCHANGED <<groups, analysis, price_str, price_range, numeric_price, calls, main>>

NextCrawl ==
    \/ FetchFails
    \/ NoAds
    \/ \E ads \in SeqsUpTo(AdKinds, MaxAds) : CrawlAds(ads)
    \/ ReturnListings

SpecCrawl == InitCrawl /\ [][NextCrawl]_vars

(* Every request returns or raises within its timeout of 10 seconds, and   *)
(* the pause after a page is one second: the pass in progress is taken.    *)
SpecCrawlFair == SpecCrawl /\ WF_vars(NextCrawl)

(***************************************************************************)
(* main().  One action is one statement of main that calls an agent; main  *)
(* holds the statement main is at, the calls that have returned so far and *)
(* the local variables.  A call that raises ends main, there is no         *)
(* try/except in it.  The retrieval, web search and rendering libraries    *)
(* are the environment: they return or raise.                              *)
(***************************************************************************)
MainInputs == {<< >>, <<Complete, Second>>, <<Complete, Unplaced>>}

faiss_group_query == "FAISS group query"

(* What search_faiss returns from an index over the listings: nothing     *)
(* (also when load_local or similarity_search raises, which it catches),   *)
(* the nearest listing or the nearest two.                                 *)
SearchOutcomes(index) ==
    {[failed |-> TRUE, results |-> << >>]}
        \cup {[failed |-> FALSE, results |-> SubSeq(index, 1, n)] : n \in 0..Len(index)}

(* A variant that analyses the retrieved group whether it is empty or not. *)
AppendedAlways(analyses, faiss_grouped_listings, faiss_group_analysis) ==
    Append(analyses, faiss_group_analysis)

(* "if faiss_grouped_listings: analyses.append(faiss_group_analysis)" *)
Appended(analyses, faiss_grouped_listings, faiss_group_analysis) ==
    IF Len(faiss_grouped_listings) > 0 THEN Append(analyses, faiss_group_analysis)
    ELSE analyses

InitMain ==
    /\ listings = << >>
    /\ groups = NotCalled
    /\ analysis = NotCalled
    /\ price_str = None
    /\ price_range = NotCalled
    /\ numeric_price = NotCalled
    /\ calls = << >>
    /\ crawl = NotCalled
    /\ main = [at |-> "crawl_listings", returned |-> << >>, raised |-> "",
               failed_searches |-> 0, index |-> << >>,
               faiss_general_results |-> NotCalled, analyses |-> << >>,
               faiss_grouped_listings |-> NotCalled, web_references |-> NotCalled,
               report |-> NotCalled]

(* main after the call at which it is has returned *)
Returns(next) == [main EXCEPT !.at = next, !.returned = Append(main.returned, main.at)]

(* main after the call at which it is has raised *)
Raises == [main EXCEPT !.at = "raised", !.raised = main.at]

(* listings = unegui_agent.crawl_listings(pages=3) *)
CrawlListings(crawled) ==
    /\ main.at = "crawl_listings"
    /\ listings' = crawled
    /\ main' = Returns("build_faiss_index")
    /\ UNCHANGED <<groups, analysis, price_str, price_range, numeric_price, calls, crawl>>

(* faiss_agent.build_faiss_index(listings): the metadatas are the listings *)
BuildFaissIndex(built) ==
    /\ main.at = "build_faiss_index"
    /\ main' = IF built THEN [Returns("search_faiss general") EXCEPT !.index = listings]
               ELSE Raises
    /\ UNCHANGED <<listings, groups, analysis, price_str, price_range, numeric_price,
                   calls, crawl>>

(* faiss_general_results = [doc.metadata for doc in search_faiss(query)] *)
GeneralSearch(outcome) ==
    /\ main.at = "search_faiss general"
    /\ main' = [Returns("group_properties") EXCEPT
                   !.faiss_general_results = outcome.results,
                   !.failed_searches = @ + (IF outcome.failed THEN 1 ELSE 0)]
    /\ UNCHANGED <<listings, groups, analysis, price_str, price_range, numeric_price,
                   calls, crawl>>

(* grouped_data = grouping_agent.group_properties(listings) *)
GroupListings ==
    /\ main.at = "group_properties"
    /\ groups' = group_properties(listings)
    /\ main' = IF IsRaise(group_properties(listings)) THEN Raises
               ELSE Returns("analyze_overall_category")
    /\ UNCHANGED <<listings, analysis, price_str, price_range, numeric_price, calls, crawl>>

(* The category "for category_name, sub_groups_dict in                     *)
(* grouped_data.items()" is at: the dict keeps the order of its literal.   *)
Category == Dimensions[Len(main.analyses) + 1]

AfterCategory(overall_analysis) ==
    IF IsRaise(overall_analysis) THEN Raises
    ELSE [Returns(IF Len(main.analyses) + 1 < Len(Dimensions)
                  THEN "analyze_overall_category" ELSE "search_faiss group")
             EXCEPT !.analyses = Append(main.analyses, overall_analysis.value)]

(* analyses.append(analysis_agent.analyze_overall_category(category_name,  *)
(* sub_groups_dict)): one pass of the loop                                 *)
AnalyzeCategory(llm) ==
    /\ main.at = "analyze_overall_category"
    /\ main' = AfterCategory(analyze_overall_category(
                                 Category, Resolve(groups.value[Category]), llm))
    /\ UNCHANGED <<listings, groups, analysis, price_str, price_range, numeric_price,
                   calls, crawl>>

(* faiss_grouped_listings = [doc.metadata for doc in search_faiss(query)] *)
GroupSearch(outcome) ==
    /\ main.at = "search_faiss group"
    /\ main' = [Returns("analyze_group") EXCEPT
                   !.faiss_grouped_listings = outcome.results,
                   !.failed_searches = @ + (IF outcome.failed THEN 1 ELSE 0)]
    /\ UNCHANGED <<listings, groups, analysis, price_str, price_range, numeric_price,
                   calls, crawl>>

AfterGroup(faiss_group_analysis) ==
    IF Len(main.faiss_grouped_listings) > 0 /\ IsRaise(faiss_group_analysis) THEN Raises
    ELSE [Returns("search_web") EXCEPT
             !.analyses = Appended(main.analyses, main.faiss_grouped_listings,
                                   faiss_group_analysis.value)]

(* "if faiss_grouped_listings:" with its two branches *)
AnalyzeFaissGroup(llm) ==
    /\ main.at = "analyze_group"
    /\ main' = AfterGroup(analyze_group(faiss_group_query,
                                        main.faiss_grouped_listings, llm))
    /\ UNCHANGED <<listings, groups, analysis, price_str, price_range, numeric_price,
                   calls, crawl>>

(* web_references = search_agent.search_web(query): the results, or [] *)
(* when the search raises                                              *)
SearchWeb(found) ==
    /\ main.at = "search_web"
    /\ main' = [Returns("generate_pdf") EXCEPT !.web_references = found]
    /\ UNCHANGED <<listings, groups, analysis, price_str, price_range, numeric_price,
                   calls, crawl>>

(* ReportAgent() raises when a font file is missing; generate_pdf is       *)
(* handed grouped_data, analyses, web_references and the general results.  *)
GeneratePdf(rendered) ==
    /\ main.at = "generate_pdf"
    /\ main' = IF rendered
               THEN [Returns("done") EXCEPT
                        !.report = [grouped_data |-> groups.value,
                                    analyses |-> main.analyses,
                                    web_references |-> main.web_references,
                                    faiss_results |-> main.faiss_general_results]]
               ELSE Raises
    /\ UNCHANGED <<listings, groups, analysis, price_str, price_range, numeric_price,
                   calls, crawl>>

NextMain ==
    \/ \E crawled \in MainInputs : CrawlListings(crawled)
    \/ \E built \in BOOLEAN : BuildFaissIndex(built)
    \/ \E outcome \in SearchOutcomes(main.index) : GeneralSearch(outcome)
    \/ GroupListings
    \/ \E llm \in LLMReplies : AnalyzeCategory(llm)
    \/ \E outcome \in SearchOutcomes(main.index) : GroupSearch(outcome)
    \/ \E llm \in LLMReplies : AnalyzeFaissGroup(llm)
    \/ \E found \in {<< >>, <<"reference">>} : SearchWeb(found)
    \/ \E rendered \in BOOLEAN : GeneratePdf(rendered)

SpecMain == InitMain /\ [][NextMain]_vars

(***************************************************************************)
(* The try block of analyze_group and analyze_overall_category, on the     *)
(* text of the reply.  A text is a sequence of tokens: the two headings    *)
(* the prompt asks for, a blank, a line break and two words.  A fallback   *)
(* is a text of one token.                                                 *)
(***************************************************************************)
MaxReplyLen == 4

ReplyTokens == {"Shinjilgee:", "Sanal:", " ", "\n", "a", "b"}

(* generate_content raises (or response.text does), or returns a text. *)
Replies ==
    {[raises |-> TRUE, text |-> << >>]}
        \cup {[raises |-> FALSE, text |-> t] : t \in SeqsUpTo(ReplyTokens, MaxReplyLen)}

(* \s of the re module, and what str.strip() removes *)
IsSpace(c) == c \in {" ", "\n"}

(* t.strip() *)
StripSpace(t) ==
    LET solid == {i \in 1..Len(t) : ~IsSpace(t[i])}
    IN  IF solid = {} THEN << >>
        ELSE SubSeq(t, CHOOSE i \in solid : \A j \in solid : i <= j,
                       CHOOSE i \in solid : \A j \in solid : j <= i)

(* The least element of a set of positions, or none when it is empty. *)
Least(S) == CHOOSE i \in S : \A j \in S : i <= j

(* The places of a heading in the text *)
Headings(t, heading) == {i \in 1..Len(t) : t[i] = heading}

(* Where "\s*" ends when it starts at i: the first place that is not a     *)
(* blank or a line break, or the end of the text.                          *)
AfterSpace(t, i) == Least({j \in i..(Len(t) + 1) : j > Len(t) \/ ~IsSpace(t[j])})

(* Where "(.*?)(?=\nSanal:|$)" ends when it starts at i *)
SummaryEnd(t, i) ==
    Least({q \in i..(Len(t) + 1) :
              \/ q > Len(t)
              \/ q < Len(t) /\ t[q] = "\n" /\ t[q + 1] = "Sanal:"})

(* summary_match.group(1).strip() *)
SummaryMatch(t) ==
    StripSpace(SubSeq(t, AfterSpace(t, Least(Headings(t, "Shinjilgee:")) + 1),
                      SummaryEnd(t, AfterSpace(t, Least(Headings(t, "Shinjilgee:")) + 1)) - 1))

(* suggestions_section_match.group(1).strip() *)
SuggestionsMatch(t) ==
    StripSpace(SubSeq(t, AfterSpace(t, Least(Headings(t, "Sanal:")) + 1), Len(t)))

(* The places at which an empty line ("\n\n") starts *)
EmptyLines(t) == {i \in 1..(Len(t) - 1) : t[i] = "\n" /\ t[i + 1] = "\n"}

(* llm_text.split('\n\n')[0].strip() *)
FirstParagraph(t) ==
    IF EmptyLines(t) = {} THEN StripSpace(t)
    ELSE StripSpace(SubSeq(t, 1, Least(EmptyLines(t)) - 1))

(* llm_text.split('\n\n')[-1].strip() *)
LastParagraph(t) ==
    IF EmptyLines(t) = {} THEN StripSpace(t)
    ELSE StripSpace(SubSeq(t, (CHOOSE i \in EmptyLines(t) :
                                   \A j \in EmptyLines(t) : j <= i) + 2, Len(t)))

(* summary_content after "if summary_match:" *)
MatchedSummary(llm_text) ==
    IF Headings(llm_text, "Shinjilgee:") # {} THEN SummaryMatch(llm_text)
    ELSE <<SummaryFallback>>

(* suggestions_text after "if suggestions_section_match:" *)
MatchedSuggestions(llm_text) ==
    IF Headings(llm_text, "Sanal:") # {} THEN SuggestionsMatch(llm_text)
    ELSE <<SuggestionsFallback>>

(* summary_content after "if not summary_content and llm_text:" *)
SummaryOf(llm_text) ==
    IF Len(MatchedSummary(llm_text)) = 0 /\ Len(llm_text) > 0
    THEN FirstParagraph(llm_text)
    ELSE MatchedSummary(llm_text)

(* suggestions_text after "if not suggestions_text and llm_text:" *)
SuggestionsOf(llm_text) ==
    IF Len(MatchedSuggestions(llm_text)) = 0 /\ Len(llm_text) > 0
    THEN IF LastParagraph(llm_text) = SummaryOf(llm_text) THEN << >>
         ELSE LastParagraph(llm_text)
    ELSE MatchedSuggestions(llm_text)

(* summary_content after the try statement *)
summary_content(reply) ==
    IF reply.raises THEN <<SummaryFallback>> ELSE SummaryOf(StripSpace(reply.text))

(* suggestions_text after the try statement *)
suggestions_text(reply) ==
    IF reply.raises THEN <<SuggestionsFallback>>
    ELSE SuggestionsOf(StripSpace(reply.text))

(* "improvement_suggestions": [suggestions_text] if suggestions_text else [] *)
improvement_suggestions(reply) ==
    IF Len(suggestions_text(reply)) > 0 THEN <<suggestions_text(reply)>> ELSE << >>

(* The analysis dict with the two texts made from the reply; the other     *)
(* entries are made before the request and do not depend on it.            *)
Narrated(made, reply) ==
    IF IsRaise(made) THEN made
    ELSE Ok([made.value EXCEPT !.summary = summary_content(reply),
                               !.improvement_suggestions = improvement_suggestions(reply)])

NarrativeInputs == {<< >>, <<Complete, Second>>}

InitNarrative ==
    /\ listings \in NarrativeInputs
    /\ groups = NotCalled
    /\ analysis = NotCalled
    /\ price_str = None
    /\ price_range = NotCalled
    /\ numeric_price = NotCalled
    /\ calls = << >>
    /\ main = NotCalled
    /\ crawl = NotCalled

(* analyze_group(name, listings) with the reply the collaborator gives *)
NarrateGroup(reply) ==
    /\ analysis = NotCalled
    /\ analysis' =
          [tag |-> "call", op |-> "analyze_group", category |-> "", llm |-> reply,
           repeated |-> FALSE,
           result |-> Narrated(analyze_group("group", listings, "raise"), reply)]
    /\ UNCHANGED <<listings, groups, price_str, price_range, numeric_price, calls,
                   main, crawl>>

(* analyze_overall_category(category_name, {key: listings}) with the reply *)
(* the collaborator gives                                                  *)
NarrateCategory(reply) ==
    /\ analysis = NotCalled
    /\ analysis' =
          [tag |-> "call", op |-> "analyze_overall_category",
           category |-> "by_district", llm |-> reply, repeated |-> FALSE,
           result |-> Narrated(CategoryOf("by_district", listings, "raise"), reply)]
    /\ UNCHANGED <<listings, groups, price_str, price_range, numeric_price, calls,
                   main, crawl>>

NextNarrative ==
    \/ \E reply \in Replies : NarrateGroup(reply)
    \/ \E reply \in Replies : NarrateCategory(reply)

SpecNarrative == InitNarrative /\ [][NextNarrative]_vars

(***************************************************************************)
(* The statistics of analyze_group and analyze_overall_category in double  *)
(* arithmetic.  The other specifications keep the average as the quotient  *)
(* of the decimal sum and the count; here average_price is the double that *)
(* sum(prices) / len(prices) returns: sum adds the prices from the left,   *)
(* rounding after each addition, and the division rounds once more.        *)
(***************************************************************************)
MaxPrices == 3

StatPrices ==
    {Str(<<"0", ".", "1">>), Str(<<"4", ".", "1", " ", "saya">>),
     Str(<<"1", "0", "0", " ", "saya", " ", "tug">>), Str(<<"inf">>),
     Str(<<"x">>), Str(<<"0">>), None}

StatInputs ==
    {[i \in 1..Len(ps) |-> [ad_data EXCEPT !["price"] = ps[i]]] :
        ps \in SeqsUpTo(StatPrices, MaxPrices)}

(* sum(prices) of finite prices *)
RECURSIVE FloatSum(_)
FloatSum(prices) ==
    IF Len(prices) = 1 THEN BitsOf(prices[1])
    ELSE FloatAdd(FloatSum(SubSeq(prices, 1, Len(prices) - 1)),
                  BitsOf(prices[Len(prices)]))

(* average_price = sum(prices) / len(prices) if prices else 0 *)
Average(prices) ==
    IF Len(prices) = 0 THEN IntV(0)
    ELSE IF \E i \in 1..Len(prices) : prices[i].tag = "inf" THEN Inf(FALSE)
    ELSE [tag |-> "double", bits |-> FloatDivide(FloatSum(prices), Len(prices))]

(* The analysis dict with the average as the double *)
Averaged(made, extracted) ==
    IF IsRaise(made) THEN made
    ELSE Ok([made.value EXCEPT !.average_price = Average(ValidPrices(extracted.value))])

InitStatistics ==
    /\ listings \in StatInputs
    /\ groups = NotCalled
    /\ analysis = NotCalled
    /\ price_str = None
    /\ price_range = NotCalled
    /\ numeric_price = NotCalled
    /\ calls = << >>
    /\ main = NotCalled
    /\ crawl = NotCalled

(* analyze_group(name, listings) *)
SummarizeGroup(llm) ==
    /\ analysis = NotCalled
    /\ analysis' =
          [tag |-> "call", op |-> "analyze_group", category |-> "", llm |-> llm,
           repeated |-> FALSE,
           result |-> Averaged(analyze_group("group", listings, llm),
                               ExtractPrices(listings, 1))]
    /\ UNCHANGED <<listings, groups, price_str, price_range, numeric_price, calls,
                   main, crawl>>

(* analyze_overall_category(category_name, {key: listings}) *)
SummarizeCategory(llm) ==
    /\ analysis = NotCalled
    /\ analysis' =
          [tag |-> "call", op |-> "analyze_overall_category",
           category |-> "by_district", llm |-> llm, repeated |-> FALSE,
           result |-> Averaged(CategoryOf("by_district", listings, llm),
                               ExtractPrices(listings, 1))]
    /\ UNCHANGED <<listings, groups, price_str, price_range, numeric_price, calls,
                   main, crawl>>

NextStatistics ==
    \/ \E llm \in LLMReplies : SummarizeGroup(llm)
    \/ \E llm \in LLMReplies : SummarizeCategory(llm)

SpecStatistics == InitStatistics /\ [][NextStatistics]_vars

(***************************************************************************)
(* ReportAgent.generate_pdf renders one example per bucket:                *)
(* "if listings: sample = listings[0]".                                    *)
(***************************************************************************)
sample(items) == IF Len(items) > 0 THEN items[1] ELSE 0

(***************************************************************************)
(* Properties of the GroupSet                                              *)
(***************************************************************************)
DimensionSet == {Dimensions[d] : d \in 1..Len(Dimensions)}

(* How many times position pos is held by the buckets of a dimension. *)
RECURSIVE Occurrences(_, _, _)
Occurrences(buckets, pos, i) ==
    IF i > Len(buckets) THEN 0
    ELSE Cardinality({j \in 1..Len(buckets[i].items) : buckets[i].items[j] = pos})
         + Occurrences(buckets, pos, i + 1)

(* A field that is absent, None or ''. *)
Missing(v) == v.tag \in {"absent", "None"} \/ (v.tag = "str" /\ v.chars = << >>)

Blank(listing) == \A f \in Fields : Missing(listing[f])

(* C1: group_properties never raises on a listing whose fields are absent, *)
(* empty or None: the call returns a GroupSet, and such a listing is in no *)
(* bucket of any dimension.                                                *)
C1_BlankListingsNeverRaise ==
    (groups # NotCalled /\ \E i \in 1..Len(listings) : Blank(listings[i]))
        => /\ groups.tag = "ok"
           /\ \A i \in 1..Len(listings), dim \in DimensionSet :
                 Blank(listings[i]) => Occurrences(groups.value[dim], i, 1) = 0

(* The band that contains a parsed price. *)
BandContaining(value) ==
    IF DecLess(value, DecOfInt(100000000)) THEN "100 Sayaas baga unetei"
    ELSE IF DecLess(value, DecOfInt(300000000)) THEN "100 sayaas - 300 saya"
    ELSE IF DecLess(value, DecOfInt(500000000)) THEN "300 sayaas - 500 saya"
    ELSE "500 sayaas ikh"

(* C2: for every price text parse_price (_extract_numeric_price) accepts,  *)
(* the bucket _get_price_range chooses is the band that contains the value *)
(* parse_price returns.                                                    *)
C2_PriceBandAgreesWithParsePrice ==
    (price_range # NotCalled /\ numeric_price.tag = "float")
        => /\ price_range.tag = "label"
           /\ price_range.name = BandContaining(numeric_price)

(* What the normalizer of each dimension accepts. *)
HasRoomToken(chars, ds) ==
    \E n \in ds : \/ Contains(Lower(chars), <<n, " ", "oroo">>)
                  \/ Contains(Lower(chars), <<n, "-", "r", " ", "oroo">>)

TextOf(listing) ==
    ToStr(Get(listing, "title", EmptyStr)) \o <<" ">>
        \o ToStr(Get(listing, "details", EmptyStr))

IsNumber(run) == IF IsNone(run) THEN FALSE ELSE ~IsNone(Float(run.chars))

Parseable(listing, dim) ==
    CASE dim = "by_district" ->
            /\ IsStr(Get(listing, "place", EmptyStr))
            /\ \E d \in 1..Len(districts) :
                  Contains(Get(listing, "place", EmptyStr).chars, <<districts[d]>>)
      [] dim = "by_price_range" ->
            _extract_numeric_price(Get(listing, "price", EmptyStr)).tag = "float"
      [] dim = "by_room_count" ->
            HasRoomToken(TextOf(listing), Digits \ {"0"})
      [] dim = "by_area_range" ->
            /\ IsStr(Get(listing, "area", EmptyStr))
            /\ IsNumber(FirstNumberRun(Get(listing, "area", EmptyStr).chars))
      [] dim = "by_year_built" ->
            /\ IsStr(Get(listing, "year", EmptyStr))
            /\ ~IsNone(FirstYearRun(Get(listing, "year", EmptyStr).chars))

(* C3: in the GroupSet, a record whose field for a dimension the           *)
(* dimension's normalizer does not parse is in no bucket of the dimension, *)
(* and every other record is in exactly one bucket of it.                  *)
C3_GrouperCoverage ==
    groups.tag = "ok" =>
        \A i \in 1..Len(listings), dim \in DimensionSet :
            Occurrences(groups.value[dim], i, 1)
                = IF Parseable(listings[i], dim) THEN 1 ELSE 0

(* C4: in the GroupSet no record (by position) is under two bucket keys of *)
(* one dimension or more than once in one bucket, and the keys of a        *)
(* dimension are distinct.                                                 *)
C4_GrouperDisjointness ==
    groups.tag = "ok" =>
        \A dim \in DimensionSet :
            /\ \A i \in 1..Len(listings) : Occurrences(groups.value[dim], i, 1) <= 1
            /\ \A a, b \in 1..Len(groups.value[dim]) :
                  groups.value[dim][a].key = groups.value[dim][b].key => a = b

(* Two records share a bucket of a dimension that has a second bucket. *)
C4_SharedBucketReached ==
    /\ groups.tag = "ok"
    /\ \E dim \in DimensionSet :
          /\ Len(groups.value[dim]) >= 2
          /\ \E a \in 1..Len(groups.value[dim]) : Len(groups.value[dim][a].items) >= 2

(* The room bucket that holds position pos, if any. *)
RoomBuckets(pos) ==
    {groups.value["by_room_count"][a].key :
        a \in {b \in 1..Len(groups.value["by_room_count"]) :
                 \E j \in 1..Len(groups.value["by_room_count"][b].items) :
                    groups.value["by_room_count"][b].items[j] = pos}}

(* C5: a listing whose title and details hold no room token for 1 to 4 but *)
(* hold a room token with a digit of 5 or more is in the "5+ rooms"        *)
(* bucket.                                                                 *)
C5_RoomCatchAll ==
    groups.tag = "ok" =>
        \A i \in 1..Len(listings) :
            (/\ ~HasRoomToken(TextOf(listings[i]), {"1", "2", "3", "4"})
             /\ HasRoomToken(TextOf(listings[i]), {"5", "6", "7", "8", "9"}))
                => RoomBuckets(i) = {"5+ rooms"}

(***************************************************************************)
(* Properties of the analysis                                              *)
(***************************************************************************)
(* The number of listings in the buckets before bucket i. *)
RECURSIVE SizeBefore(_, _)
SizeBefore(buckets, i) ==
    IF i <= 1 THEN 0 ELSE SizeBefore(buckets, i - 1) + Len(buckets[i - 1].items)

(* The positions the buckets hold, bucket after bucket, each bucket in its *)
(* own order.                                                              *)
InBucketOrder(buckets) ==
    [k \in 1..SizeBefore(buckets, Len(buckets) + 1) |->
        LET i == CHOOSE i \in 1..Len(buckets) :
                    SizeBefore(buckets, i) < k /\ k <= SizeBefore(buckets, i + 1)
        IN  buckets[i].items[k - SizeBefore(buckets, i)]]

(* The sequence s, every element evaluated once. *)
Evaluated(s) == SubSeq(s, 1, Len(s))

At(positions) == [k \in DOMAIN positions |-> listings[positions[k]]]

(* The records the last analysis call was made on. *)
Analysed ==
    IF analysis.op = "analyze_group" THEN listings
    ELSE Evaluated(At(Evaluated(InBucketOrder(groups.value[analysis.category]))))

Returned == analysis.tag = "call" /\ analysis.result.tag = "ok"

(* The fields of the result that are statistics of the records. *)
StatsOf(result) ==
    IF result.tag = "ok"
    THEN [count |-> result.value.count,
          average_price |-> result.value.average_price,
          price_range |-> result.value.price_range,
          common_features |-> result.value.common_features]
    ELSE result

(* C6: count, average_price, price_range and common_features depend on the *)
(* records only: a call returns normally whatever the narrative            *)
(* collaborator does, and a second call on the same list returns the same  *)
(* values for these fields whatever the collaborator replies.              *)
C6_StatisticsIgnoreNarrative ==
    [][analysis'.tag = "call" =>
          /\ analysis'.result.tag = "ok"
          /\ analysis.tag = "call" =>
                StatsOf(analysis'.result) = StatsOf(analysis.result)]_vars

(* A second call in which the collaborator raises, on records with prices  *)
(* and common features, after a call in which it replied.                  *)
C6_RepeatedCallReached ==
    /\ Returned
    /\ analysis.repeated
    /\ analysis.llm = "raise"
    /\ analysis.result.value.summary = SummaryFallback
    /\ analysis.result.value.count > 1
    /\ analysis.result.value.average_price.num.m > 0
    /\ analysis.result.value.common_features # << >>

(* The value the counting loop counts for a listing and a feature, or None *)
(* when it counts none.                                                    *)
Counted(listing, feature) ==
    LET value == Get(listing, feature, None)
    IN  IF ~Truthy(value) THEN None
        ELSE IF IsDigitStr(ToStr(Observed(value, feature)))
        THEN Observed(value, feature)
        ELSE None

(* The counted value of every feature and position of L. *)
CountedValues(L) ==
    Evaluated([f \in 1..Len(Features) |->
                 Evaluated([i \in 1..Len(L) |-> Counted(L[i], Features[f])])])

CountedKeys(cv) ==
    {k \in {<<f, cv[f][i]>> : f \in DOMAIN cv, i \in DOMAIN cv[1]} : ~IsNone(k[2])}

TimesCounted(cv, k) == Cardinality({i \in DOMAIN cv[1] : cv[k[1]][i] = k[2]})

Rendered(k) == ToStr(k[2]) \o <<" ", feature_display_names[Features[k[1]]]>>

(* The keys of cv that are counted in at least 40% of n records. *)
CommonKeys(cv, n) == {k \in CountedKeys(cv) : 5 * TimesCounted(cv, k) >= 2 * n}

(* cf reports each text once for each key of common that it renders. *)
ReportsExactly(cf, common) ==
    /\ Len(cf) = Cardinality(common)
    /\ \A k \in common :
          Cardinality({j \in 1..Len(cf) : cf[j] = Rendered(k)})
              = Cardinality({h \in common : Rendered(h) = Rendered(k)})

(* C7: for a non-empty record set of size n, a counted value of a          *)
(* candidate field is reported in common_features if and only if its count *)
(* c satisfies 5 * c >= 2 * n: each text is reported once for each counted *)
(* value it renders that meets the threshold, and nothing else is          *)
(* reported.                                                               *)
C7_CommonFeatureThreshold ==
    (Returned /\ Len(Analysed) > 0) =>
        ReportsExactly(analysis.result.value.common_features,
                       CommonKeys(CountedValues(Analysed), Len(Analysed)))

BoundaryCase(cf, cv) ==
    /\ \E k \in CountedKeys(cv) :
          TimesCounted(cv, k) = 2 /\ \E j \in 1..Len(cf) : cf[j] = Rendered(k)
    /\ \E k \in CountedKeys(cv) :
          TimesCounted(cv, k) = 1 /\ \A j \in 1..Len(cf) : cf[j] # Rendered(k)

(* Five records: a value counted twice is reported, a value counted once   *)
(* is not.                                                                 *)
C7_BoundaryReached ==
    /\ Returned
    /\ Len(Analysed) = 5
    /\ BoundaryCase(analysis.result.value.common_features, CountedValues(Analysed))

(* parse_price on the price of a record *)
Parsed(listing) == _extract_numeric_price(Get(listing, "price", None))

(* parse_price on every record of L *)
ParsedPrices(L) == Evaluated([i \in 1..Len(L) |-> Parsed(L[i])])

(* The positions whose price parses to a strictly positive number. *)
Priced(pp) == {i \in DOMAIN pp : pp[i].tag = "float" /\ pp[i].m > 0}

RECURSIVE TotalOver(_, _)
TotalOver(pp, S) ==
    IF S = {} THEN DecOfInt(0)
    ELSE LET i == CHOOSE i \in S : TRUE
         IN  DecAdd(pp[i], TotalOver(pp, S \ {i}))

(* The quotient q is the number n. *)
QuotientIs(q, n) == q.num = DecOfInt(n * q.den)

(* r holds the average, the least and the greatest of the prices at the    *)
(* positions P.                                                            *)
AggregatesOver(r, pp, P) ==
    /\ r.average_price.num = TotalOver(pp, P)
    /\ r.average_price.den = Cardinality(P)
    /\ \E i \in P : r.price_range[1] = pp[i] /\ \A j \in P : DecLeq(pp[i], pp[j])
    /\ \E i \in P : r.price_range[2] = pp[i] /\ \A j \in P : DecLeq(pp[j], pp[i])

PriceAggregation(r, L, P, pp) ==
    /\ r.count = Len(L)
    /\ P # {} => AggregatesOver(r, pp, P)
    /\ L = PriceExample =>
          /\ r.count = 3
          /\ QuotientIs(r.average_price, 150000000)
          /\ r.price_range = <<DecOfInt(100000000), DecOfInt(200000000)>>

(* C8: count is the number of records, those with a missing or unparseable *)
(* price included; average, min and max are taken over the prices that     *)
(* parse to a strictly positive number only.  The prices "100 saya tug",   *)
(* "200 saya tug" and a word give count 3, average 150,000,000, min        *)
(* 100,000,000 and max 200,000,000.                                        *)
C8_PriceAggregation ==
    Returned =>
        PriceAggregation(analysis.result.value, Analysed,
                         Priced(ParsedPrices(Analysed)), ParsedPrices(Analysed))

(* The three-price example has been analysed. *)
C8_PriceExampleReached ==
    /\ Returned
    /\ Analysed = PriceExample
    /\ Cardinality(Priced(ParsedPrices(Analysed))) = 2
    /\ analysis.result.value.count = 3
    /\ QuotientIs(analysis.result.value.average_price, 150000000)

ZeroStatistics(result, L) ==
    /\ result.tag = "ok"
    /\ result.value.count = Len(L)
    /\ result.value.average_price = [num |-> DecOfInt(0), den |-> 1]
    /\ result.value.price_range = <<DecOfInt(0), DecOfInt(0)>>
    /\ Len(L) = 0 => result.value.common_features = << >>

(* C9: a call on zero records, or on records none of which has a valid     *)
(* positive price, returns normally with count the number of records and   *)
(* average, min and max 0; on zero records common_features is empty.       *)
C9_NoValidPriceGivesZeros ==
    (analysis.tag = "call" /\ Priced(ParsedPrices(Analysed)) = {}) =>
        ZeroStatistics(analysis.result, Analysed)

(* Records with prices that do not parse or are not positive have been     *)
(* analysed.                                                               *)
C9_PricelessReached ==
    /\ Returned
    /\ Len(Analysed) = 2
    /\ Priced(ParsedPrices(Analysed)) = {}
    /\ \E i \in 1..Len(Analysed) : Truthy(Get(Analysed[i], "price", None))
    /\ analysis.result.value.count = 2

(* C10: analyze_overall_category on a bucket map returns the statistics    *)
(* analyze_group returns on the buckets' records taken bucket after        *)
(* bucket, each bucket in its own order; count is the sum of the bucket    *)
(* sizes.                                                                  *)
C10_CategoryIsGroupOfConcatenation ==
    (analysis.tag = "call" /\ analysis.op = "analyze_overall_category") =>
        /\ StatsOf(analysis.result)
              = StatsOf(analyze_group("group", Analysed, analysis.llm))
        /\ analysis.result.tag = "ok" =>
              analysis.result.value.count
                  = SizeBefore(groups.value[analysis.category],
                               Len(groups.value[analysis.category]) + 1)

(* Ten records split 4/6 across two districts: count 10, a value with four *)
(* occurrences is reported and a value with three is not.                  *)
C10_EndToEndReached ==
    /\ Returned
    /\ analysis.op = "analyze_overall_category"
    /\ analysis.category = "by_district"
    /\ listings = EndToEnd
    /\ Len(groups.value["by_district"]) = 2
    /\ Len(groups.value["by_district"][1].items) = 4
    /\ Len(groups.value["by_district"][2].items) = 6
    /\ analysis.result.value.count = 10
    /\ \E j \in 1..Len(analysis.result.value.common_features) :
          analysis.result.value.common_features[j] = <<"5", " ", "davkhart bairladag">>
    /\ \A j \in 1..Len(analysis.result.value.common_features) :
          analysis.result.value.common_features[j] # <<"3", " ", "davkhart bairladag">>

(***************************************************************************)
(* Order and independence of the dimensions                                *)
(***************************************************************************)
(* What the function of a dimension returns for a listing. *)
LabelOf(listing, dim) ==
    CASE dim = "by_district" -> _extract_district(Get(listing, "place", EmptyStr))
      [] dim = "by_price_range" -> _get_price_range(Get(listing, "price", EmptyStr))
      [] dim = "by_room_count" ->
            RoomOf(TitleAndDetails(Get(listing, "title", EmptyStr),
                                   Get(listing, "details", EmptyStr)))
      [] dim = "by_area_range" -> _get_area_range(Get(listing, "area", EmptyStr))
      [] dim = "by_year_built" -> _get_year_range(Get(listing, "year", EmptyStr))

(* The bucket key a dimension gives a listing, from the fields of that     *)
(* dimension alone; "" when it gives none.                                 *)
KeyOf(listing, dim) ==
    IF LabelOf(listing, dim).tag = "label" THEN LabelOf(listing, dim).name ELSE ""

(* The keys of the buckets of a dimension that hold position pos. *)
KeysHolding(buckets, pos) ==
    {buckets[a].key :
        a \in {b \in 1..Len(buckets) :
                 \E j \in 1..Len(buckets[b].items) : buckets[b].items[j] = pos}}

Increasing(items) == \A j, k \in 1..Len(items) : j < k => items[j] < items[k]

(* C11: in every bucket of every dimension the records are in the order of *)
(* the input, and the example the report renders for a bucket              *)
(* (listings[0]) is the earliest input record the dimension classifies     *)
(* under the bucket's key.                                                 *)
C11_StableBucketOrder ==
    groups.tag = "ok" =>
        \A dim \in DimensionSet :
            \A a \in 1..Len(groups.value[dim]) :
                /\ Increasing(groups.value[dim][a].items)
                /\ sample(groups.value[dim][a].items) \in 1..Len(listings)
                /\ KeyOf(listings[sample(groups.value[dim][a].items)], dim)
                      = groups.value[dim][a].key
                /\ \A i \in 1..Len(listings) :
                      KeyOf(listings[i], dim) = groups.value[dim][a].key
                          => sample(groups.value[dim][a].items) <= i

(* A bucket holds the first and the third record, the second is in another *)
(* bucket of the dimension.                                                *)
C11_InterleavedBucketReached ==
    /\ groups.tag = "ok"
    /\ \E dim \in DimensionSet :
          \E a, b \in 1..Len(groups.value[dim]) :
              /\ groups.value[dim][a].items = <<1, 3>>
              /\ groups.value[dim][b].items = <<2>>

(* C12: each dimension buckets a record by its own fields alone: once      *)
(* group_properties has been called, a record is held by exactly the       *)
(* bucket its dimension's fields give, whatever its other fields are, and  *)
(* the buckets hold input records only.                                    *)
C12_DimensionsIndependent ==
    groups # NotCalled =>
        \A i \in 1..Len(listings), dim \in DimensionSet :
            KeyOf(listings[i], dim) # "" =>
                /\ groups.tag = "ok"
                /\ KeysHolding(groups.value[dim], i) = {KeyOf(listings[i], dim)}
                /\ \A a \in 1..Len(groups.value[dim]) :
                      \A j \in 1..Len(groups.value[dim][a].items) :
                          groups.value[dim][a].items[j] \in 1..Len(listings)

(* The same, for the calls that return. *)
C12_IndependentWhenReturned ==
    groups.tag = "ok" =>
        \A i \in 1..Len(listings), dim \in DimensionSet :
            /\ KeysHolding(groups.value[dim], i)
                  = IF KeyOf(listings[i], dim) = "" THEN {} ELSE {KeyOf(listings[i], dim)}
            /\ \A a \in 1..Len(groups.value[dim]) :
                  \A j \in 1..Len(groups.value[dim][a].items) :
                      groups.value[dim][a].items[j] \in 1..Len(listings)

(***************************************************************************)
(* The price parser                                                        *)
(***************************************************************************)
(* What is left of a price text once the currency glyph, the scale words   *)
(* and the separators are taken away.                                      *)
Remainder(chars) ==
    Strip(Remove(Remove(Remove(Remove(Remove(chars, "tug"), "saya"), "terbum"), ","), " "))

Unsigned(t) == IF Len(t) > 0 /\ t[1] = "-" THEN Tail(t) ELSE t

(* A decimal literal: digits with at most one point, at least one digit. *)
IsDecimalLiteral(t) ==
    /\ \A i \in 1..Len(Unsigned(t)) : Unsigned(t)[i] \in Digits \cup {"."}
    /\ Cardinality({i \in 1..Len(Unsigned(t)) : Unsigned(t)[i] = "."}) <= 1
    /\ \E i \in 1..Len(Unsigned(t)) : Unsigned(t)[i] \in Digits

CharsOf(text) == IF IsStr(text) THEN text.chars ELSE << >>

IsText(text) == IsStr(text) \/ IsNone(text)

(* C13: parse_price (_extract_numeric_price) is total: for every text, the *)
(* empty text and None included, it does not raise, and it returns None    *)
(* whenever what is left after stripping the glyph, the scale word and the *)
(* separators is not a decimal literal.                                    *)
C13_ParsePriceTotal ==
    (numeric_price # NotCalled /\ IsText(price_str))
        => /\ numeric_price.tag # "raise"
           /\ ~IsDecimalLiteral(Remainder(CharsOf(price_str)))
                  => numeric_price = None

(* The half of C13 that the parser keeps: no text makes it raise. *)
C13_NoTextRaises ==
    (numeric_price # NotCalled /\ IsText(price_str))
        => numeric_price.tag # "raise"

(* The formatted price texts that spell a known amount. *)
Spells(text, value) ==
    \E variant \in Variants, glyph \in BOOLEAN : text = Format(value, variant, glyph)

(* The original statement of C14: the parsed result is the known amount    *)
(* itself.                                                                 *)
C14_RoundTripExact ==
    numeric_price # NotCalled
        => \A value \in KnownValues :
               Spells(price_str, value) => numeric_price = DecOfInt(value)

(* The double nearest to the amount, or one of its two neighbours. *)
WithinTolerance(result, value) ==
    IF result.tag = "float"
    THEN result.m = DecOfInt(value).m /\ result.e = DecOfInt(value).e
    ELSE FALSE

(* C14: for every known amount and every formatting variant built from it  *)
(* (plain digits, groups of three separated by spaces or by commas, the    *)
(* million word, the billion word, each with or without the currency       *)
(* glyph), parse_price of the formatted text is the amount within          *)
(* floating-point tolerance: the amount itself or a neighbouring double.   *)
C14_RoundTripWithinTolerance ==
    numeric_price # NotCalled
        => \A value \in KnownValues :
               Spells(price_str, value) => WithinTolerance(numeric_price, value)

(* 4,100,000 written with the million word parses to a neighbour of        *)
(* 4,100,000.                                                              *)
C14_RoundedProductReached ==
    /\ price_str = Format(4100000, "million", TRUE)
    /\ numeric_price # NotCalled
    /\ WithinTolerance(numeric_price, 4100000)
    /\ numeric_price # DecOfInt(4100000)

(***************************************************************************)
(* The inputs of the core                                                  *)
(***************************************************************************)
(* C15: the core never mutates its input: across every call of             *)
(* group_properties, analyze_group and analyze_overall_category the list   *)
(* of records handed in keeps its records, each with the same fields and   *)
(* values, and the GroupSet handed to analyze_overall_category keeps its   *)
(* buckets and their members.                                              *)
C15_InputsNeverMutated ==
    [][/\ listings' = listings
       /\ groups # NotCalled => groups' = groups]_vars

(* An analysis call has returned on the GroupSet of a list of records. *)
C15_AnalysedAfterGrouping ==
    /\ Len(listings) > 0
    /\ groups.tag = "ok"
    /\ analysis # NotCalled
    /\ analysis.op = "analyze_overall_category"
    /\ analysis.repeated

(***************************************************************************)
(* The bands                                                               *)
(***************************************************************************)
(* The band [lo, hi) of a table of lower ends that holds n: the last one   *)
(* whose lower end is at most n.                                           *)
BandFrom(table, n) ==
    table[CHOOSE i \in 1..Len(table) :
              /\ table[i].from <= n
              /\ \A j \in 1..Len(table) : table[j].from <= n => j <= i].name

PriceBands ==
    <<[from |-> 0, name |-> "100 Sayaas baga unetei"],
      [from |-> 100000000, name |-> "100 sayaas - 300 saya"],
      [from |-> 300000000, name |-> "300 sayaas - 500 saya"],
      [from |-> 500000000, name |-> "500 sayaas ikh"]>>

AreaBands ==
    <<[from |-> 0, name |-> "Under 40 sqm"], [from |-> 400, name |-> "40-60 sqm"],
      [from |-> 600, name |-> "60-80 sqm"], [from |-> 800, name |-> "Over 80 sqm"]>>

YearBands ==
    <<[from |-> 0, name |-> "Pre-2000"], [from |-> 2000, name |-> "2000-2010"],
      [from |-> 2010, name |-> "2010-2020"], [from |-> 2020, name |-> "Post-2020"]>>

PriceBandTable ==
    UNION {{<<text, BandFrom(PriceBands, value)>> : text \in PriceTextsOf(value)} :
              value \in BoundaryPrices}

AreaBandTable ==
    {<<AreaText(tenths), BandFrom(AreaBands, tenths)>> : tenths \in BoundaryAreas}

YearBandTable ==
    {<<YearText(year), BandFrom(YearBands, year)>> : year \in BoundaryYears}

(* The record is in the bucket the table gives for its text, and in no     *)
(* other bucket of the dimension.                                          *)
InBandOf(table, text, buckets) ==
    \A row \in table : text = row[1] => KeysHolding(buckets, 1) = {row[2]}

(* C16: the bands are half-open with inclusive lower ends and partition    *)
(* the parsed values: a price of exactly 100M, 300M or 500M, an area of    *)
(* exactly 40, 60 or 80 and a year of exactly 2000, 2010 or 2020 are in    *)
(* the band that starts at that value, and every value is in exactly one   *)
(* of the four bands of its dimension.                                     *)
C16_HalfOpenBands ==
    (groups.tag = "ok" /\ Len(listings) = 1)
        => /\ InBandOf(PriceBandTable, listings[1]["price"],
                       groups.value["by_price_range"])
           /\ InBandOf(AreaBandTable, listings[1]["area"],
                       groups.value["by_area_range"])
           /\ InBandOf(YearBandTable, listings[1]["year"],
                       groups.value["by_year_built"])

(* A record of 300 million, 60 square metres and the year 2020, each the   *)
(* lower end of a band, has been grouped.                                  *)
C16_LowerEndsReached ==
    /\ groups.tag = "ok"
    /\ listings = <<BandListing(Format(300000000, "million", TRUE),
                                AreaText(600), YearText(2020))>>
    /\ KeysHolding(groups.value["by_price_range"], 1) = {"300 sayaas - 500 saya"}
    /\ KeysHolding(groups.value["by_area_range"], 1) = {"60-80 sqm"}
    /\ KeysHolding(groups.value["by_year_built"], 1) = {"Post-2020"}

(***************************************************************************)
(* The room count                                                          *)
(***************************************************************************)
RoomKeys == <<"1 room", "2 rooms", "3 rooms", "4 rooms", "5+ rooms">>

RoomDigits == <<"1", "2", "3", "4", "5">>

(* The counts N of 1 to 5 for which the text holds a room token. *)
TokensIn(chars) == {n \in 1..5 : HasRoomToken(chars, {RoomDigits[n]})}

Lowest(S) == CHOOSE n \in S : \A m \in S : n <= m

(* C17: a listing whose title and details hold room tokens for several N   *)
(* is only in the bucket of the lowest such N (1 before 2 before 3 before  *)
(* 4 before 5+), and a listing without a room token is in no bucket of     *)
(* by_room_count.                                                          *)
C17_LowestRoomTokenWins ==
    groups.tag = "ok" =>
        \A i \in 1..Len(listings) :
            RoomBuckets(i) =
                IF TokensIn(TextOf(listings[i])) = {} THEN {}
                ELSE {RoomKeys[Lowest(TokensIn(TextOf(listings[i])))]}

(* A record with tokens for 2 and for 3 is in "2 rooms". *)
C17_SeveralTokensReached ==
    /\ groups.tag = "ok"
    /\ Len(listings) = 1
    /\ TokensIn(TextOf(listings[1])) = {2, 3}
    /\ RoomBuckets(1) = {"2 rooms"}

(***************************************************************************)
(* The observations behind common_features                                 *)
(***************************************************************************)
(* The field an entry of common_features is about, and the value it shows. *)
FieldOf(entry) ==
    CHOOSE f \in 1..Len(Features) : feature_display_names[Features[f]] = entry[Len(entry)]

ShownIn(entry) == SubSeq(entry, 1, Len(entry) - 2)

(* The record's value of the field is a number that reads k: its text is   *)
(* k, or for the year k followed by ".0".                                  *)
Reads(value, feature, k) ==
    IF value.tag \in {"str", "int"}
    THEN \/ ToStr(value) = k
         \/ feature = "year" /\ ToStr(value) = k \o <<".", "0">>
    ELSE FALSE

TimesRead(L, feature, k) ==
    Cardinality({i \in 1..Len(L) : Reads(Get(L[i], feature, None), feature, k)})

(* C18: only numeric-valued observations of the five candidate fields are  *)
(* counted: every value common_features reports is a number that at least  *)
(* 40% of the records carry in that field, a year with a trailing ".0"     *)
(* counting as the bare year; a value that is not a number adds to no      *)
(* count.                                                                  *)
C18_OnlyNumericCounted ==
    (Returned /\ analysis.op = "analyze_group") =>
        \A j \in 1..Len(analysis.result.value.common_features) :
            /\ IsDigitStr(ShownIn(analysis.result.value.common_features[j]))
            /\ 5 * TimesRead(listings,
                             Features[FieldOf(analysis.result.value.common_features[j])],
                             ShownIn(analysis.result.value.common_features[j]))
                  >= 2 * Len(listings)

(* What the counting loop keeps of C18: every reported value is written in *)
(* digits, and a year that enough records carry, bare or with ".0", is     *)
(* reported.                                                               *)
C18_DigitsReportedYearsMerged ==
    (Returned /\ analysis.op = "analyze_group") =>
        /\ \A j \in 1..Len(analysis.result.value.common_features) :
              IsDigitStr(ShownIn(analysis.result.value.common_features[j]))
        /\ (/\ Len(listings) > 0
            /\ 5 * TimesRead(listings, "year", <<"2", "0", "2", "0">>) >= 2 * Len(listings))
              => \E j \in 1..Len(analysis.result.value.common_features) :
                    analysis.result.value.common_features[j]
                        = <<"2", "0", "2", "0", " ", feature_display_names["year"]>>

(***************************************************************************)
(* The order of common_features                                            *)
(***************************************************************************)
(* The first record of L whose counted value of the field shows as k. *)
FirstSeen(L, f, k) ==
    LET seen == {i \in 1..Len(L) :
                    IF IsNone(Counted(L[i], Features[f])) THEN FALSE
                    ELSE ToStr(Counted(L[i], Features[f])) = k}
    IN  IF seen = {} THEN 0 ELSE CHOOSE i \in seen : \A h \in seen : i <= h

(* cf goes field by field in the declared order, and within a field by     *)
(* first occurrence in L.                                                  *)
InDeclaredOrder(cf, L) ==
    \A j, l \in 1..Len(cf) :
        j < l =>
            /\ FieldOf(cf[j]) <= FieldOf(cf[l])
            /\ FieldOf(cf[j]) = FieldOf(cf[l])
                  => /\ FirstSeen(L, FieldOf(cf[j]), ShownIn(cf[j])) > 0
                     /\ FirstSeen(L, FieldOf(cf[j]), ShownIn(cf[j]))
                            <= FirstSeen(L, FieldOf(cf[l]), ShownIn(cf[l]))

(* C19: the order of common_features is deterministic: the entries are     *)
(* grouped by field in the declared order balcony, total_floor, year,      *)
(* window_count, floor, within one field the values are in the order of    *)
(* their first occurrence in the record list, and the same call made again *)
(* on the same list returns the same sequence.                             *)
C19_CommonFeaturesOrder ==
    /\ [](Returned => InDeclaredOrder(analysis.result.value.common_features, Analysed))
    /\ [][(Returned /\ analysis'.repeated)
            => analysis'.result.value.common_features
                   = analysis.result.value.common_features]_vars

(* Two values of one field are reported, the one met first in front though *)
(* it is the larger, and an entry of a later field follows them; the call  *)
(* has been made twice.                                                    *)
C19_FirstSeenOrderReached ==
    /\ Returned
    /\ analysis.repeated
    /\ Len(analysis.result.value.common_features) >= 3
    /\ analysis.result.value.common_features[1] = <<"2", " ", feature_display_names["balcony"]>>
    /\ analysis.result.value.common_features[2] = <<"1", " ", feature_display_names["balcony"]>>
    /\ FieldOf(analysis.result.value.common_features[3]) > 1

(***************************************************************************)
(* Calls in flight at the same time                                        *)
(***************************************************************************)
(* What the call returns when it runs alone. *)
Alone(call) ==
    IF call.op = "group_properties" THEN group_properties(call.listings)
    ELSE analyze_group("group", call.listings, call.llm)

(* C20: concurrent use is safe: in every interleaving of the steps of two  *)
(* or more grouping and summarization calls, on different inputs or on the *)
(* same record sequence, each call returns exactly what it returns when it *)
(* runs alone.                                                             *)
C20_InterleavingIsSafe ==
    \A c \in DOMAIN calls :
        calls[c].result # NotCalled => calls[c].result = Alone(calls[c])

(* Two calls of group_properties on the same record sequence have both     *)
(* returned, each having taken steps while the other was in flight.        *)
C20_OverlappingCallsReached ==
    /\ Len(calls) >= 2
    /\ calls[1].op = "group_properties" /\ calls[2].op = "group_properties"
    /\ calls[1].listings = calls[2].listings
    /\ calls[1].result.tag = "ok" /\ calls[2].result.tag = "ok"
    /\ calls[1].overlapped /\ calls[2].overlapped

(***************************************************************************)
(* The crawl                                                               *)
(***************************************************************************)
(* The ads of the pages served, in the order served: page, place on the    *)
(* page and kind.                                                          *)
RECURSIVE AdsOf(_, _)
AdsOf(served, j) ==
    IF j > Len(served) THEN << >>
    ELSE [k \in 1..Len(served[j].ads) |-> [page |-> j, k |-> k, kind |-> served[j].ads[k]]]
         \o AdsOf(served, j + 1)

(* The record was made from the ad: it carries the ad's name unless the    *)
(* card is bare, a link exactly if the card has one, and details exactly   *)
(* if the detail page was parsed.                                          *)
MadeFrom(record, ad) ==
    /\ ad.kind # "bare" => record["title"] = Str(AdName(ad.page, ad.k))
    /\ IsNone(record["url"]) <=> ad.kind \in {"bare", "unlinked"}
    /\ IsNone(record["details"]) <=> ad.kind # "detailed"

EmptyPage(page) == page.fetched /\ Len(page.ads) = 0

CrawlInOrder ==
    /\ Len(crawl.requested) <= crawl.pages
    /\ \A j \in 1..Len(crawl.requested) : crawl.requested[j] = j
    /\ \A j \in 1..Len(crawl.served) : EmptyPage(crawl.served[j]) => j = Len(crawl.served)
    /\ crawl.returned =>
          \/ Len(crawl.requested) = crawl.pages
          \/ EmptyPage(crawl.served[Len(crawl.served)])
    /\ Len(crawl.all_listings_data) = Len(AdsOf(crawl.served, 1))
    /\ \A j \in 1..Len(crawl.all_listings_data) :
          MadeFrom(crawl.all_listings_data[j], AdsOf(crawl.served, 1)[j])
    /\ crawl.returned => listings = crawl.all_listings_data

(* C22: crawl_listings(pages) returns, having requested at most "pages"    *)
(* listing pages, in increasing order from page 1.  A page whose fetch     *)
(* fails is skipped and the next one is requested; the first fetched page  *)
(* without ads is the last page requested; the list returned holds one     *)
(* record for every ad of every fetched page, in page order, whatever      *)
(* became of the ad's detail page.                                         *)
C22_CrawlTerminatesInOrder == []CrawlInOrder /\ <>crawl.returned

(* A crawl of four pages has returned after a failed page, a page of two   *)
(* ads, one of them without its details, and a page without ads: the       *)
(* fourth page was not requested.                                          *)
C22_SkippedAndEndedReached ==
    /\ crawl.returned
    /\ crawl.pages = 4
    /\ crawl.requested = <<1, 2, 3>>
    /\ ~crawl.served[1].fetched
    /\ Len(crawl.served[2].ads) = 2
    /\ \E k \in 1..2 : crawl.served[2].ads[k] \in {"detail_fails", "detail_unparsed"}
    /\ EmptyPage(crawl.served[3])
    /\ Len(listings) = 2

(***************************************************************************)
(* The pipeline                                                            *)
(***************************************************************************)
(* The places in the sequence of returned calls at which the call is. *)
Places(call) == {i \in 1..Len(main.returned) : main.returned[i] = call}

Before(first, second) == \A i \in Places(first), j \in Places(second) : i < j

HasReturned(call) == Places(call) # {}

AnalysisCalls == {"analyze_overall_category", "analyze_group"}

(* The first entries of analyses are the category analyses, one for each   *)
(* dimension in the order of the GroupSet.                                 *)
CategoriesInOrder ==
    \A d \in 1..Len(main.analyses) :
        IF d <= Len(Dimensions) THEN main.analyses[d].group_name = Title(Dimensions[d])
        ELSE /\ d = Len(Dimensions) + 1
             /\ main.analyses[d].group_name = faiss_group_query
             /\ main.analyses[d].count = Len(main.faiss_grouped_listings)

PipelineOrder ==
    /\ \A a \in AnalysisCalls :
          HasReturned(a) =>
              /\ HasReturned("crawl_listings") /\ Before("crawl_listings", a)
              /\ HasReturned("build_faiss_index") /\ Before("build_faiss_index", a)
              /\ HasReturned("group_properties") /\ Before("group_properties", a)
    /\ CategoriesInOrder
    /\ Cardinality(Places("analyze_overall_category")) <= Len(Dimensions)
    /\ HasReturned("search_faiss group") =>
          /\ Cardinality(Places("analyze_overall_category")) = Len(Dimensions)
          /\ Len(main.analyses) >= Len(Dimensions)
          /\ Before("analyze_overall_category", "search_faiss group")
    /\ HasReturned("analyze_group") =>
          (Len(main.analyses) = Len(Dimensions) + 1
               <=> Len(main.faiss_grouped_listings) > 0)
    /\ ~HasReturned("analyze_group") => Len(main.analyses) <= Len(Dimensions)
    /\ main.raised \notin {"search_faiss general", "search_faiss group"}
    /\ main.report # NotCalled =>
          /\ main.at = "done"
          /\ main.returned[Len(main.returned)] = "generate_pdf"
          /\ \A a \in AnalysisCalls : Before(a, "generate_pdf")
          /\ HasReturned("analyze_group")
          /\ main.report.analyses = main.analyses
          /\ main.report.grouped_data = group_properties(listings).value

(* C21: main crawls, indexes and groups the listings before it analyses    *)
(* anything; it makes one category analysis for each of the five           *)
(* dimensions, in the order of the GroupSet, before the retrieval of the   *)
(* group; the analysis of the retrieved group is appended exactly if the   *)
(* retrieval returned a listing, a retrieval that fails returning none     *)
(* without ending main; and the report is made last, from all the          *)
(* analyses and the GroupSet as group_properties returned it.              *)
C21_PipelineOrder == PipelineOrder

(* A report was made from six analyses although the first retrieval had    *)
(* failed.                                                                 *)
C21_ReportAfterFailedSearchReached ==
    /\ main # NotCalled
    /\ main.report # NotCalled
    /\ main.failed_searches = 1
    /\ main.faiss_general_results = << >>
    /\ Len(main.faiss_grouped_listings) = 2
    /\ Len(main.report.analyses) = 6

(***************************************************************************)
(* The narrative                                                           *)
(***************************************************************************)
ReportsFailure(result) ==
    \E i \in 1..Len(result.value.improvement_suggestions) :
        result.value.improvement_suggestions[i] = <<SuggestionsFallback>>

Narrative == analysis.tag = "call" /\ analysis.result.tag = "ok"

(* C23: improvement_suggestions holds the text that reports a failed       *)
(* request only if the request to the collaborator raised; when the        *)
(* request returns a text, the failure text is not reported.               *)
C23_FallbackOnlyAfterFailure ==
    (Narrative /\ ReportsFailure(analysis.result)) => analysis.llm.raises

(* The failure text is reported after a request that raised. *)
C23_FailureReportedReached ==
    /\ Narrative
    /\ analysis.llm.raises
    /\ analysis.result.value.improvement_suggestions = <<(<<SuggestionsFallback>>)>>
    /\ analysis.result.value.summary = <<SummaryFallback>>

(* The same, for the replies that hold the heading of the suggestions. *)
C23_FallbackAbsentWithHeading ==
    (Narrative /\ ~analysis.llm.raises
        /\ Headings(analysis.llm.text, "Sanal:") # {})
        => ~ReportsFailure(analysis.result)

(***************************************************************************)
(* The size of common_features                                             *)
(***************************************************************************)
(* The places of common_features that hold the entry *)
PlacesOf(cf, entry) == {i \in 1..Len(cf) : cf[i] = entry}

(* The records whose field holds the value *)
Holding(L, feature, value) == {i \in 1..Len(L) : L[i][feature] = value}

(* C24: common_features never holds the same entry twice, whatever the     *)
(* records, also when a number is an int in one record and a str in        *)
(* another.                                                                *)
C24_NoDuplicateEntries ==
    Returned =>
        \A i \in 1..Len(analysis.result.value.common_features) :
            PlacesOf(analysis.result.value.common_features,
                     analysis.result.value.common_features[i]) = {i}

(* The same, for the records whose numbers are all of one type. *)
C24_NoDuplicatesOfOneType ==
    (/\ Returned
     /\ \/ \A i \in 1..Len(listings) : listings[i]["balcony"].tag # "int"
        \/ \A i \in 1..Len(listings) : listings[i]["balcony"].tag # "str")
        => \A i \in 1..Len(analysis.result.value.common_features) :
               PlacesOf(analysis.result.value.common_features,
                        analysis.result.value.common_features[i]) = {i}

(* The entries of common_features that belong to the field *)
EntriesOf(cf, f) == {i \in 1..Len(cf) : FieldOf(cf[i]) = f}

(* C25: of a single field at most two values are reported as common, each  *)
(* record giving one observation of the field at most and a common value   *)
(* needing 40% of the records; common_features has ten entries at most.    *)
C25_AtMostTwoPerField ==
    Returned =>
        /\ \A f \in 1..Len(Features) :
              Cardinality(EntriesOf(analysis.result.value.common_features, f)) <= 2
        /\ Len(analysis.result.value.common_features) <= 2 * Len(Features)

(* Five records, two values twice each in every field: ten entries. *)
C25_TenEntriesReached ==
    /\ Returned
    /\ Len(listings) = 5
    /\ Len(analysis.result.value.common_features) = 10
    /\ \A f \in 1..Len(Features) :
          Cardinality(EntriesOf(analysis.result.value.common_features, f)) = 2
    /\ Cardinality(Holding(listings, "balcony", Str(<<"1">>))) = 2

(***************************************************************************)
(* The price statistics                                                    *)
(***************************************************************************)
(* The positions whose price parses to a number above zero, the infinity   *)
(* included.                                                               *)
Positive(pp) ==
    {i \in DOMAIN pp : \/ pp[i].tag = "float" /\ pp[i].m > 0
                       \/ pp[i].tag = "inf" /\ ~pp[i].negative}

(* x <= y of two numbers above zero: parsed prices, or the average *)
NumberLeq(x, y) ==
    IF y.tag = "inf" THEN TRUE
    ELSE IF x.tag = "inf" THEN FALSE
    ELSE BitsGeq(IF y.tag = "double" THEN y.bits ELSE BitsOf(y),
                 IF x.tag = "double" THEN x.bits ELSE BitsOf(x))

AboveZero(x) == x.tag = "inf" \/ x.m > 0

(* The least and the greatest are prices of records, above zero and in     *)
(* order; without a price all three are 0.                                 *)
RangeFromRecords(r, pp) ==
    IF Positive(pp) = {}
    THEN r.average_price = IntV(0) /\ r.price_range = <<Zero, Zero>>
    ELSE /\ \E i \in Positive(pp) : r.price_range[1] = pp[i]
         /\ \E i \in Positive(pp) : r.price_range[2] = pp[i]
         /\ AboveZero(r.price_range[1])
         /\ NumberLeq(r.price_range[1], r.price_range[2])

AverageInRange(r, pp) ==
    Positive(pp) # {} =>
        /\ NumberLeq(r.price_range[1], r.average_price)
        /\ NumberLeq(r.average_price, r.price_range[2])

(* C26: when a record has a valid price above zero, the result has         *)
(* 0 < min_price <= average_price <= max_price, and min_price and          *)
(* max_price are each the parsed price of a record; when none has, the     *)
(* three are 0.                                                            *)
C26_AverageWithinRange ==
    Returned =>
        /\ RangeFromRecords(analysis.result.value, ParsedPrices(listings))
        /\ AverageInRange(analysis.result.value, ParsedPrices(listings))

(* The same without the average: the least and the greatest price. *)
C26_RangeFromRecords ==
    Returned => RangeFromRecords(analysis.result.value, ParsedPrices(listings))

(* Three records of different prices, one of them infinite, and a record   *)
(* without a price.                                                        *)
C26_MixedPricesReached ==
    /\ Returned
    /\ Len(listings) = 3
    /\ Cardinality(Positive(ParsedPrices(listings))) = 2
    /\ analysis.result.value.price_range[1] # analysis.result.value.price_range[2]
    /\ AverageInRange(analysis.result.value, ParsedPrices(listings))

====
